---- MODULE Spec2Model ----
(***************************************************************************)
(* A model of the query-time retrieval and ranking code of the             *)
(* rag-quality-gates repository:                                           *)
(*   rag/rag_pipeline_rest.py          RAGPipeline                         *)
(*   enhancements/simple_enhancement.py EnhancedRAG                        *)
(*   evaluation/metrics.py             RAGMetrics                          *)
(*   evaluation/evaluator.py           RAGEvaluator                        *)
(*   src/llm/llm_client.py             LLMClient                           *)
(* Python strings are TLA+ strings; substring tests, lower-casing and the  *)
(* regular-expression tokenisers are computed character by character.      *)
(* Floating-point scores are integers: hundredths in RAGPipeline (0.5 is   *)
(* 50), thousandths in EnhancedRAG, ten-thousandths in RAGMetrics.         *)
(***************************************************************************)
EXTENDS Integers, Sequences, FiniteSets, TLC

VARIABLES
    use_enhanced,           \* RAGPipeline.use_enhanced
    default_analysis_mode,  \* RAGPipeline.default_analysis_mode
    points,                 \* the collection: in the store's nearest-neighbour order
                            \* for RAGPipeline, in scroll order for EnhancedRAG
    request,                \* the arguments of the call in progress
    response,               \* what that call returned
    raised,                 \* the collaborator that raised during that call
    llm_prompts,            \* the prompts that call sent to the LLM client
    evaluation,             \* the locals of RAGEvaluator.run_evaluation while it runs
    analyses,               \* (question, result) of the keyword analyses made so far
    llm,                    \* LLMClient: use_local, and whether pipeline and client are set
    full_evaluation         \* the locals of run_full_evaluation.main and the files on disk

vars == <<use_enhanced, default_analysis_mode, points, request, response, raised, llm_prompts, evaluation, analyses, llm, full_evaluation>>

(***************************************************************************)
(* Bounds of the model.                                                    *)
(***************************************************************************)
\* points of a collection
MaxPoints == 2

\* points of a collection, in the runs where no collaborator raises
MaxRankedPoints == 3

\* points of a collection of repeated uploads
MaxDuplicatePoints == 5

\* the largest top_k asked for
MaxTopK == 3

\* points of a collection that EnhancedRAG scrolls
MaxEnhancedPoints == 3

\* context documents handed to a metric
MaxContextDocs == 2

\* the largest quote id in a list of retrieved or expected ids
MaxId == 4

\* ids in a list of retrieved or expected ids
MaxIdListLen == 3

\* test cases of an evaluation dataset
MaxCases == 2

\* keywords of a question, in the runs that add one keyword
MaxKeywords == 2

\* keyword analyses recorded in a run
MaxAnalyses == 3

\* the largest top_k asked for in the runs about effective_top_k
MaxRequestedTopK == 4

\* the points of a collection in which final scores may tie
MaxTiePoints == 3

\* the documents of a context list handed to a prompt formatter
MaxPromptDocs == 3

\* points of a collection searched by a pipeline without enhancement
MaxPlainPoints == 4









(***************************************************************************)
(* Python values.                                                          *)
(***************************************************************************)
\* None. An optional value v is <<v>>; payload.get(key) of an absent key is None.
None == <<>>

Some(v) == <<v>>

\* dict.get(key, default)
Get(d, key, default) == IF key \in DOMAIN d THEN d[key] ELSE default

\* dict.get(key) as an optional value: Some(d[key]), or None for an absent key
GetOpt(d, key) == IF key \in DOMAIN d THEN Some(d[key]) ELSE None

\* Python truthiness of a string: "" is false.
TruthyStr(s) == s # ""

\* Python truthiness of a list: [] is false.
TruthyList(l) == l # <<>>

Max(a, b) == IF a >= b THEN a ELSE b

Min(a, b) == IF a <= b THEN a ELSE b

\* seq[:n] for n >= 0
Take(seq, n) == SubSeq(seq, 1, Min(n, Len(seq)))

Range(seq) == {seq[i] : i \in 1..Len(seq)}

(***************************************************************************)
(* Strings.                                                                *)
(***************************************************************************)
\* sub in s
Contains(s, sub) ==
    \E i \in 1..(Len(s) - Len(sub) + 1) : SubSeq(s, i, i + Len(sub) - 1) = sub

UpperLetters == "ABCDEFGHIJKLMNOPQRSTUVWXYZ"

LowerLetters == "abcdefghijklmnopqrstuvwxyz"

Digits == "0123456789"

CharAt(s, i) == SubSeq(s, i, i)

\* the position of the one-character string c in alphabet, 0 when absent
IndexIn(alphabet, c) ==
    IF \E i \in 1..Len(alphabet) : CharAt(alphabet, i) = c
    THEN CHOOSE i \in 1..Len(alphabet) : CharAt(alphabet, i) = c
    ELSE 0

LowerChar(c) ==
    LET i == IndexIn(UpperLetters, c)
    IN  IF i = 0 THEN c ELSE CharAt(LowerLetters, i)

\* the characters i..j of s, each lowered; the range is halved so that the
\* evaluation stays shallow on long texts
RECURSIVE LowerRange(_, _, _)
LowerRange(s, i, j) ==
    IF i > j THEN ""
    ELSE IF i = j THEN LowerChar(CharAt(s, i))
    ELSE LowerRange(s, i, (i + j) \div 2) \o LowerRange(s, (i + j) \div 2 + 1, j)

\* str.lower()
Lower(s) == LowerRange(s, 1, Len(s))

IsLetter(c) == IndexIn(UpperLetters, c) # 0 \/ IndexIn(LowerLetters, c) # 0

\* \w of the re module, on the ASCII text the model uses
IsWordChar(c) == IsLetter(c) \/ IndexIn(Digits, c) # 0 \/ c = "_"

AllLetters(s) == \A i \in 1..Len(s) : IsLetter(CharAt(s, i))

\* the positions from i on where a maximal run of characters of one kind
\* starts, scanning from i
RunStarts(s, i, Kind(_)) ==
    {j \in i..Len(s) : Kind(CharAt(s, j)) /\ (j = i \/ ~Kind(CharAt(s, j - 1)))}

\* the n-th smallest position of starts
NthStart(starts, n) == CHOOSE j \in starts : Cardinality({k \in starts : k < j}) = n - 1

\* the last position of the run of characters of one kind that starts at i
LastOfRun(s, i, Kind(_)) ==
    CHOOSE e \in i..Len(s) :
        /\ \A k \in i..e : Kind(CharAt(s, k))
        /\ (e = Len(s) \/ ~Kind(CharAt(s, e + 1)))

\* the runs that start at the positions starts, from left to right
RunsAt(s, starts, Kind(_)) ==
    [n \in 1..Cardinality(starts) |->
        SubSeq(s, NthStart(starts, n), LastOfRun(s, NthStart(starts, n), Kind))]

\* re.finditer over one character class: its maximal runs from i on, in order
Runs(s, i, Kind(_)) == RunsAt(s, RunStarts(s, i, Kind), Kind)

\* the maximal runs of \w characters of s, in order
WordRuns(s, i) == Runs(s, i, IsWordChar)

is_letter_word(w) == Len(w) >= 3 /\ AllLetters(w)

\* re.findall(r"\b[a-zA-Z]{3,}\b", s): the maximal \w runs made of at least
\* three letters and nothing else, in order.
FindWords(s, i) == SelectSeq(WordRuns(s, i), is_letter_word)

\* list(dict.fromkeys(seq)): first occurrences, in order
RECURSIVE DedupKeepFirst(_)
DedupKeepFirst(seq) ==
    IF seq = <<>> THEN <<>>
    ELSE LET front == DedupKeepFirst(SubSeq(seq, 1, Len(seq) - 1))
             last == seq[Len(seq)]
         IN  IF last \in Range(front) THEN front ELSE Append(front, last)

\* " ".join(seq)
RECURSIVE JoinSpace(_)
JoinSpace(seq) ==
    IF seq = <<>> THEN ""
    ELSE IF Len(seq) = 1 THEN seq[1]
    ELSE seq[1] \o " " \o JoinSpace(Tail(seq))

(***************************************************************************)
(* The collection.  A point is [payload |-> a quote's payload, score |->   *)
(* its similarity to the query, in hundredths].  A payload is a record     *)
(* holding only the keys that are present.  The fields era, context,       *)
(* source, language, key_phrases and modern_relevance are copied by the    *)
(* code and never read by retrieval or ranking; the model leaves them out. *)
(***************************************************************************)
RooseveltQuote ==
    [id |-> 1,
     quote |-> "The only thing we have to fear is fear itself.",
     author |-> "Franklin D. Roosevelt",
     topic |-> "Leadership, Courage",
     tags |-> <<"courage", "depression", "leadership">>,
     interpretation |-> "Encourages facing challenges with courage",
     historical_significance |-> "Defining speech of New Deal era"]

BaconQuote ==
    [id |-> 2,
     quote |-> "Knowledge is power.",
     author |-> "Francis Bacon",
     topic |-> "Education, Power"]

SocratesQuote ==
    [id |-> 3,
     quote |-> "The unexamined life is not worth living.",
     author |-> "Socrates",
     topic |-> "Philosophy, Self-reflection",
     interpretation |-> "A life without reflection lacks meaning",
     themes |-> "wisdom"]

\* a payload without the id key
NoIdQuote ==
    [quote |-> "Eureka!",
     author |-> "Archimedes",
     topic |-> "Discovery, Science"]

Payloads == {RooseveltQuote, BaconQuote, SocratesQuote, NoIdQuote}

\* stored payloads that lack the quote, or the author
NoQuotePayload ==
    [id |-> 13,
     author |-> "Franklin D. Roosevelt",
     topic |-> "Fear"]

NoAuthorPayload ==
    [id |-> 14,
     quote |-> "Courage is resistance to fear, mastery of fear, not absence of fear.",
     topic |-> "Courage, Fear"]

\* the fields a stored quote must have
RequiredFields == {"id", "quote", "author"}

MalformedPayloads == {NoIdQuote, NoQuotePayload, NoAuthorPayload}

\* sample quotes of DataGenerator.generate_sample_quotes; none of them holds
\* "roosevelt" or "fear" in its author, topic, quote or tags
OtherQuotes ==
    <<BaconQuote,
      SocratesQuote,
      [id |-> 4, quote |-> "To be, or not to be: that is the question.",
       author |-> "William Shakespeare", topic |-> "Existence, Philosophy",
       tags |-> <<"Existence", "Philosophy">>],
      [id |-> 5, quote |-> "The only true wisdom is in knowing you know nothing.",
       author |-> "Socrates", topic |-> "Wisdom, Humility",
       interpretation |-> "Wisdom begins with admitting ignorance"],
      [id |-> 6, quote |-> "Eureka!", author |-> "Archimedes",
       topic |-> "Discovery, Science"],
      [id |-> 7, quote |-> "Veni, vidi, vici. (I came, I saw, I conquered.)",
       author |-> "Julius Caesar", topic |-> "Conquest, Achievement",
       historical_significance |-> "Report of a swift victory to the Senate"],
      [id |-> 8, quote |-> "An eye for an eye makes the whole world blind.",
       author |-> "Mahatma Gandhi", topic |-> "Nonviolence, Justice"],
      [id |-> 9, quote |-> "Life is what happens to you while you're busy making other plans.",
       author |-> "John Lennon", topic |-> "Life, Perspective"],
      [id |-> 10, quote |-> "In the middle of difficulty lies opportunity.",
       author |-> "Albert Einstein", topic |-> "Opportunity, Challenge",
       tags |-> <<"Opportunity", "Challenge">>]>>

\* the corpus of the Roosevelt quote and the other quotes
CorpusSize == Len(OtherQuotes) + 1

StoredPayloads == Payloads \cup Range(OtherQuotes) \cup MalformedPayloads

\* cosine similarities the store reports, in hundredths
ScoreLevels == {20, 90}

Points == [payload : Payloads, score : ScoreLevels]

\* the ids of the quotes a collection holds
QuoteIds(pts) == {pts[i].payload.id : i \in {j \in 1..Len(pts) : "id" \in DOMAIN pts[j].payload}}

(***************************************************************************)
(* RAGPipeline (rag/rag_pipeline_rest.py)                                  *)
(***************************************************************************)
AnalysisMode == {"basic", "standard", "comprehensive", "comparative"}

keyword_boost == 50

analysis_doc_boost == 30

\* _hit_score: a hit without a score counts 0.0
hit_score(hit) == IF "score" \in DOMAIN hit THEN hit.score ELSE 0

\* _hit_payload: a hit without a payload has the empty payload
hit_payload(hit) == IF "payload" \in DOMAIN hit THEN hit.payload ELSE <<>>

\* the dict _build_search_payload makes of a payload and a score
payload_doc(payload, score, include_analysis_fields) ==
    IF include_analysis_fields
    THEN [id |-> GetOpt(payload, "id"),
          quote |-> Get(payload, "quote", ""),
          author |-> Get(payload, "author", "Unknown"),
          topic |-> Get(payload, "topic", ""),
          tags |-> Get(payload, "tags", <<>>),
          score |-> score,
          interpretation |-> Get(payload, "interpretation", ""),
          historical_significance |-> Get(payload, "historical_significance", ""),
          themes |-> Get(payload, "themes", "")]
    ELSE [id |-> GetOpt(payload, "id"),
          quote |-> Get(payload, "quote", ""),
          author |-> Get(payload, "author", "Unknown"),
          topic |-> Get(payload, "topic", ""),
          tags |-> Get(payload, "tags", <<>>),
          score |-> score]

build_search_payload(hit, include_analysis_fields) ==
    payload_doc(hit_payload(hit), hit_score(hit), include_analysis_fields)

\* bool(doc.get("interpretation") or doc.get("historical_significance"))
doc_has_analysis(doc) ==
    \/ TruthyStr(Get(doc, "interpretation", ""))
    \/ TruthyStr(Get(doc, "historical_significance", ""))

docs_have_analysis(docs) == \E i \in 1..Len(docs) : doc_has_analysis(docs[i])

select_prompt_method(analysis_mode, docs) ==
    IF analysis_mode = "comprehensive" /\ docs_have_analysis(docs)
        THEN "format_rag_prompt_with_analysis"
    ELSE IF analysis_mode = "standard" THEN "format_rag_prompt"
    ELSE IF analysis_mode = "basic" THEN "format_simple_prompt"
    ELSE IF analysis_mode = "comparative" /\ Len(docs) >= 2 THEN "comparative"
    ELSE IF docs_have_analysis(docs) THEN "format_rag_prompt_with_analysis"
    ELSE "format_rag_prompt"

extract_keywords_stop ==
    {"what", "who", "when", "where", "why", "how", "said", "say",
     "about", "some", "the", "a", "an", "and", "or", "but", "in",
     "on", "at", "to", "for", "of", "with", "by", "does", "did",
     "do", "can", "could", "would", "should", "there", "are", "is",
     "was", "were", "jr"}

not_stop_word(w) == w \notin extract_keywords_stop

extract_keywords(question) ==
    DedupKeepFirst(SelectSeq(FindWords(Lower(question), 1), not_stop_word))

analysis_triggers ==
    {"mean", "meaning", "interpret", "explain", "significance",
     "historical", "context", "background", "analyze", "analysis",
     "what does", "why did", "how does"}

question_needs_analysis(question) ==
    \E t \in analysis_triggers : Contains(Lower(question), t)

\* the test of _select_effective_top_k on q, the lower-cased question
topic_search_test(q) ==
    /\ Contains(q, "quotes")
    /\ \/ Contains(q, "about")
       \/ Contains(q, "are there")
       \/ Contains(q, "some")
       \/ Contains(q, "list")

is_topic_search(question) == topic_search_test(Lower(question))

\* the test of _select_effective_top_k on the question and q, its lower case
exact_or_author_test(question, q) ==
    \/ Contains(q, "who said")
    \/ (Contains(q, "what did") \/ Contains(q, "what was")) /\ ~Contains(q, "quotes")
    \/ (Contains(question, "'") \/ Contains(question, "\"")) /\ ~Contains(q, "quotes")
    \/ Contains(q, "dream about") /\ ~Contains(q, "quotes")

is_exact_or_author(question) == exact_or_author_test(question, Lower(question))

(***************************************************************************)
(* The model's questions.  What the code computes from the text of a       *)
(* question is tabulated once per question.                                *)
(***************************************************************************)
Questions ==
    {"What did Roosevelt say about fear?",
     "List some quotes about perseverance",
     "Compare quotes about leadership and courage",
     "What does Roosevelt's 'fear itself' quote mean?",
     "Who said these quotes about power?",
     "Explain the historical context of courage",
     "Tell me of wisdom"}

question_shape ==
    [q \in Questions |->
        [is_topic_search |-> is_topic_search(q),
         is_exact_or_author |-> is_exact_or_author(q),
         needs_analysis |-> question_needs_analysis(q),
         keywords |-> extract_keywords(q)]]

\* _select_effective_top_k without its exact/author rule
top_k_without_exact_rule(enhanced, question, requested_top_k, mode) ==
    IF ~enhanced THEN requested_top_k
    ELSE IF question_shape[question].is_topic_search THEN requested_top_k
    ELSE IF mode = "comprehensive" /\ question_shape[question].needs_analysis
        THEN Min(Max(requested_top_k, 2), 3)
    ELSE requested_top_k

\* _select_effective_top_k with the exact/author rule ahead of the topic rule
top_k_exact_rule_first(enhanced, question, requested_top_k, mode) ==
    IF ~enhanced THEN requested_top_k
    ELSE IF question_shape[question].is_exact_or_author THEN 1
    ELSE IF question_shape[question].is_topic_search THEN requested_top_k
    ELSE IF mode = "comprehensive" /\ question_shape[question].needs_analysis
        THEN Min(Max(requested_top_k, 2), 3)
    ELSE requested_top_k

\* _select_effective_top_k whose comprehensive rule only caps at 3
top_k_capped_only(enhanced, question, requested_top_k, mode) ==
    IF ~enhanced THEN requested_top_k
    ELSE IF question_shape[question].is_exact_or_author
            /\ ~question_shape[question].is_topic_search THEN 1
    ELSE IF question_shape[question].is_topic_search THEN requested_top_k
    ELSE IF mode = "comprehensive" /\ question_shape[question].needs_analysis
        THEN Min(requested_top_k, 3)
    ELSE requested_top_k

select_effective_top_k(enhanced, question, requested_top_k, mode) ==
    IF ~enhanced THEN requested_top_k
    ELSE IF question_shape[question].is_exact_or_author
            /\ ~question_shape[question].is_topic_search THEN 1
    ELSE IF question_shape[question].is_topic_search THEN requested_top_k
    ELSE IF mode = "comprehensive" /\ question_shape[question].needs_analysis
        THEN Min(Max(requested_top_k, 2), 3)
    ELSE requested_top_k

lower_all(seq) == [i \in 1..Len(seq) |-> Lower(seq[i])]

\* the text of a document that the keywords are looked up in
boost_blob(d) ==
    JoinSpace(<<Lower(Get(d, "author", "")),
                Lower(Get(d, "topic", "")),
                Lower(Get(d, "quote", "")),
                JoinSpace(lower_all(Get(d, "tags", <<>>)))>>)

\* the fields of a document that boost_blob reads
blob_fields(d) ==
    [author |-> Get(d, "author", ""), topic |-> Get(d, "topic", ""),
     quote |-> Get(d, "quote", ""), tags |-> Get(d, "tags", <<>>)]

\* the number of the keywords found in a text
count_matches(keywords, blob) ==
    Cardinality({i \in 1..Len(keywords) : Contains(blob, keywords[i])})

\* the number of keywords of the question found in the document's text,
\* tabulated per question and per text a stored payload gives
keyword_hits ==
    [q \in Questions, f \in {blob_fields(payload_doc(p, 0, TRUE)) : p \in StoredPayloads} |->
        count_matches(question_shape[q].keywords, boost_blob(f))]

\* a score that loses keyword_boost for every keyword found
score_with_hits_penalised(d, hits, needs_analysis) ==
    Get(d, "score", 0)
        - keyword_boost * hits
        + (IF needs_analysis /\ doc_has_analysis(d) THEN analysis_doc_boost ELSE 0)

\* the score of a document in whose text `hits` of the keywords were found
score_with_hits(d, hits, needs_analysis) ==
    Get(d, "score", 0)
        + keyword_boost * hits
        + (IF needs_analysis /\ doc_has_analysis(d) THEN analysis_doc_boost ELSE 0)

\* the score of one document after the keyword and analysis boosts
boosted_score(d, question, needs_analysis) ==
    score_with_hits(d, keyword_hits[question, blob_fields(d)], needs_analysis)

\* d put behind the documents of sorted that score at least as much
insert_after(sorted, d, n) ==
    SubSeq(sorted, 1, n) \o <<d>> \o SubSeq(sorted, n + 1, Len(sorted))

\* an insertion that puts d before the documents of its own score
insert_before_ties(sorted, d) ==
    insert_after(sorted, d,
                 Cardinality({i \in 1..Len(sorted) : sorted[i].score > d.score}))

insert_by_score(sorted, d) ==
    insert_after(sorted, d,
                 Cardinality({i \in 1..Len(sorted) : sorted[i].score >= d.score}))

\* list.sort(key=score, reverse=True): descending and stable
RECURSIVE sort_by_score_desc(_)
sort_by_score_desc(docs) ==
    IF docs = <<>> THEN <<>>
    ELSE insert_by_score(sort_by_score_desc(SubSeq(docs, 1, Len(docs) - 1)), docs[Len(docs)])

boost_all(docs, question, needs_analysis) ==
    [i \in 1..Len(docs) |->
        [docs[i] EXCEPT !.score = boosted_score(docs[i], question, needs_analysis)]]

apply_enhanced_boosting(docs, question, mode) ==
    IF docs = <<>> THEN docs
    ELSE sort_by_score_desc(
            boost_all(docs, question,
                      mode = "comprehensive" \/ question_shape[question].needs_analysis))

\* _qdrant_search through query_points, search_points or search: the first
\* `limit` points in nearest-neighbour order.  Every qdrant_client release has
\* one of the three, so the scroll fallback is never taken.
qdrant_search(pts, limit) == Take(pts, limit)

\* the loop over the hits without seen_ids: every hit becomes a document
docs_of_all_hits(hits, include_analysis) ==
    [i \in 1..Len(hits) |-> build_search_payload(hits[i], include_analysis)]

\* one turn of the loop of process_query over the hits: a payload without
\* an id is skipped, a hit whose id was seen is dropped
add_unique_by_id(docs, doc) ==
    IF doc.id = None THEN docs
    ELSE IF doc.id \notin {docs[i].id : i \in 1..Len(docs)} THEN Append(docs, doc)
    ELSE docs

RECURSIVE unique_docs_by_id(_, _)
unique_docs_by_id(hits, include_analysis) ==
    IF hits = <<>> THEN <<>>
    ELSE add_unique_by_id(unique_docs_by_id(SubSeq(hits, 1, Len(hits) - 1), include_analysis),
                          build_search_payload(hits[Len(hits)], include_analysis))

\* the words process_query looks for in the answer (includes_analysis)
answer_analysis_keywords ==
    {"means", "significance", "context", "interpret", "analyze", "themes"}

\* what the LLM client may answer to a prompt
LLMAnswers ==
    {"I cannot find that information in my knowledge base"}

\* any(keyword in answer.lower() ...), tabulated per answer
has_analysis_in_answer ==
    [a \in LLMAnswers |->
        \E k \in answer_analysis_keywords : Contains(Lower(a), k)]

\* the collaborator that raises during a call, if any
Raisers == {"nobody", "embedder", "store", "llm"}

\* _generate_comparative_analysis; llm_client has compare_quotes.
\* The result is <<answer, prompts sent>>.
generate_comparative_analysis(question, docs, llm_answer) ==
    IF Len(docs) < 2
    THEN <<"Need at least two quotes for comparative analysis.", <<>>>>
    ELSE <<"Comparative Analysis of Two Key Quotes:\n\n" \o llm_answer,
           <<[method |-> "compare_quotes", docs |-> 2]>>>>

\* an except branch that reports no error flag
response_without_error_flag(e) ==
    [answer |-> "Error during RAG processing: " \o e,
     retrieved_count |-> 0,
     search_results |-> <<>>,
     analysis_mode |-> "error"]

\* the except branch of process_query
error_response(e) ==
    [answer |-> "Error during RAG processing: " \o e,
     retrieved_count |-> 0,
     search_results |-> <<>>,
     analysis_mode |-> "error",
     error |-> TRUE]

\* the analysis_mode argument: None, or a mode given as an enum member or by name
AnalysisModeArgs == {None} \cup {Some(m) : m \in AnalysisMode}

\* mode_map.get(analysis_mode.lower()), tabulated per argument
mode_map == [a \in AnalysisModeArgs \ {None} |-> GetOpt([m \in AnalysisMode |-> m], Lower(a[1]))]

resolve_mode(analysis_mode, default_mode) ==
    IF analysis_mode = None THEN default_mode
    ELSE IF mode_map[analysis_mode] # None THEN mode_map[analysis_mode][1]
    ELSE default_mode

rank_docs(enhanced, docs, question, mode) ==
    IF enhanced THEN apply_enhanced_boosting(docs, question, mode) ELSE docs

\* a retrieval that boosts the documents whether or not use_enhanced is set
retrieve_boosted_docs(enhanced, pts, question, effective_top_k, mode, include_analysis) ==
    Take(rank_docs(TRUE,
                   unique_docs_by_id(qdrant_search(pts, effective_top_k * 2), include_analysis),
                   question, mode),
         effective_top_k)

\* the documents process_query retrieves: dedup by id, boost, cut to effective_top_k
retrieve_docs(enhanced, pts, question, effective_top_k, mode, include_analysis) ==
    Take(rank_docs(enhanced,
                   unique_docs_by_id(qdrant_search(pts, effective_top_k * 2), include_analysis),
                   question, mode),
         effective_top_k)

has_interpretation(docs) ==
    \E i \in 1..Len(docs) : TruthyStr(Get(docs[i], "interpretation", ""))

has_historical_context(docs) ==
    \E i \in 1..Len(docs) : TruthyStr(Get(docs[i], "historical_significance", ""))

answer_type_of(prompt_method) ==
    IF prompt_method = "format_rag_prompt_with_analysis" THEN "comprehensive_analysis"
    ELSE IF prompt_method = "format_simple_prompt" THEN "basic_answer"
    ELSE "standard_answer"

\* a comparative return that leaves used_top_k out
comparative_response_without_top_k(mode, effective_top_k, docs, answer) ==
    [answer |-> answer,
     retrieved_count |-> Len(docs),
     search_results |-> docs,
     analysis_mode |-> mode,
     answer_type |-> "comparative_analysis",
     has_interpretation |-> has_interpretation(docs),
     has_historical_context |-> has_historical_context(docs),
     includes_analysis |-> TRUE]

\* the return of the comparative branch
comparative_response(mode, effective_top_k, docs, answer) ==
    [answer |-> answer,
     retrieved_count |-> Len(docs),
     search_results |-> docs,
     analysis_mode |-> mode,
     answer_type |-> "comparative_analysis",
     has_interpretation |-> has_interpretation(docs),
     has_historical_context |-> has_historical_context(docs),
     includes_analysis |-> TRUE,
     used_top_k |-> effective_top_k]

\* the return of the other branches
standard_response(mode, effective_top_k, docs, prompt_method, answer) ==
    [answer |-> answer,
     retrieved_count |-> Len(docs),
     search_results |-> docs,
     analysis_mode |-> mode,
     answer_type |-> answer_type_of(prompt_method),
     has_interpretation |-> has_interpretation(docs),
     has_historical_context |-> has_historical_context(docs),
     includes_analysis |-> has_analysis_in_answer[answer],
     prompt_method |-> prompt_method,
     used_top_k |-> effective_top_k]

\* process_query from the choice of the prompt on:
\* [response |-> the dict returned, prompts |-> the prompts sent to the LLM]
generate_answer(question, mode, effective_top_k, docs, prompt_method, raiser, llm_answer) ==
    IF prompt_method = "comparative"
    THEN [response |->
             IF raiser = "llm" THEN error_response(raiser)
             ELSE comparative_response(mode, effective_top_k, docs,
                      generate_comparative_analysis(question, docs, llm_answer)[1]),
          prompts |-> generate_comparative_analysis(question, docs, llm_answer)[2]]
    ELSE [response |->
             IF raiser = "llm" THEN error_response(raiser)
             ELSE standard_response(mode, effective_top_k, docs, prompt_method, llm_answer),
          prompts |-> <<[method |-> prompt_method, docs |-> Len(docs)]>>]

\* process_query once the documents are retrieved
answer_from_docs(question, mode, effective_top_k, docs, raiser, llm_answer) ==
    generate_answer(question, mode, effective_top_k, docs,
                    select_prompt_method(mode, docs), raiser, llm_answer)

\* process_query once effective_top_k is chosen
query_with_top_k(enhanced, pts, question, mode, effective_top_k, include_analysis, raiser, llm_answer) ==
    IF raiser \in {"embedder", "store"}
    THEN [response |-> error_response(raiser), prompts |-> <<>>]
    ELSE answer_from_docs(question, mode, effective_top_k,
             retrieve_docs(enhanced, pts, question, effective_top_k, mode, include_analysis),
             raiser, llm_answer)

\* process_query once the mode is resolved
query_in_mode(enhanced, pts, question, top_k, mode, include_analysis, raiser, llm_answer) ==
    query_with_top_k(enhanced, pts, question, mode,
                     select_effective_top_k(enhanced, question, top_k, mode),
                     include_analysis, raiser, llm_answer)

process_query(enhanced, default_mode, pts, question, top_k, analysis_mode, include_analysis, raiser, llm_answer) ==
    query_in_mode(enhanced, pts, question, top_k, resolve_mode(analysis_mode, default_mode),
                  include_analysis, raiser, llm_answer)

(***************************************************************************)
(* The state machine of RAGPipeline: a pipeline is constructed over an     *)
(* empty collection, points are uploaded, and queries are processed one at *)
(* a time.                                                                 *)
(***************************************************************************)
\* the pipelines the repository builds: rag_pipeline, analysis_pipeline and
\* run_enhanced's RAGPipeline(use_enhanced=True)
Pipelines ==
    {[use_enhanced |-> FALSE, default_analysis_mode |-> "standard"],
     [use_enhanced |-> FALSE, default_analysis_mode |-> "comprehensive"],
     [use_enhanced |-> TRUE, default_analysis_mode |-> "standard"]}

pipeline_vars == <<use_enhanced, default_analysis_mode>>

call_vars == <<request, response, raised, llm_prompts>>

client_vars == <<evaluation, analyses, llm, full_evaluation>>

\* RAGPipeline.__init__ over a new collection
Construct(pipeline) ==
    /\ use_enhanced = pipeline.use_enhanced
    /\ default_analysis_mode = pipeline.default_analysis_mode
    /\ points = <<>>
    /\ request = None
    /\ response = None
    /\ raised = "nobody"
    /\ llm_prompts = <<>>
    /\ evaluation = None
    /\ analyses = <<>>
    /\ llm = [use_local |-> TRUE, pipeline |-> TRUE, client |-> FALSE]
    /\ full_evaluation = None

\* a point is uploaded to a collection of fewer than max_points points; the
\* store ranks it by its similarity to the query
UpsertPoint(pt, max_points) ==
    /\ request = None
    /\ Len(points) < max_points
    /\ IF points = <<>> THEN TRUE ELSE points[Len(points)].score >= pt.score
    /\ points' = Append(points, pt)
    /\ UNCHANGED <<client_vars, pipeline_vars, call_vars>>

\* the call returns r.response after r.prompts went to the LLM
Respond(r) ==
    /\ response' = Some(r.response)
    /\ llm_prompts' = r.prompts

\* RAGPipeline.process_query
ProcessQuery(question, top_k, analysis_mode, include_analysis, raiser, llm_answer) ==
    /\ request = None
    /\ Respond(process_query(use_enhanced, default_analysis_mode, points, question,
                             top_k, analysis_mode, include_analysis, raiser, llm_answer))
    /\ request' = Some([question |-> question, top_k |-> top_k,
                        analysis_mode |-> analysis_mode,
                        include_analysis |-> include_analysis])
    /\ raised' = raiser
    /\ UNCHANGED <<client_vars, pipeline_vars, points>>

\* the caller takes the response; the pipeline is ready for the next call
Return ==
    /\ request # None
    /\ request' = None
    /\ response' = None
    /\ raised' = "nobody"
    /\ llm_prompts' = <<>>
    /\ UNCHANGED <<client_vars, pipeline_vars, points>>

(***************************************************************************)
(* Spec: every pipeline, every question, mode and failing collaborator,    *)
(* over collections of up to MaxPoints points.                             *)
(***************************************************************************)
Init == \E pipeline \in Pipelines : Construct(pipeline)

Next ==
    \/ \E pt \in Points : UpsertPoint(pt, MaxPoints)
    \/ \E question \in Questions, top_k \in 1..MaxTopK, analysis_mode \in AnalysisModeArgs,
          raiser \in Raisers, llm_answer \in LLMAnswers :
          ProcessQuery(question, top_k, analysis_mode, TRUE, raiser, llm_answer)
    \/ Return

Spec == Init /\ [][Next]_vars

(***************************************************************************)
(* SpecMalformed: calls in which no collaborator raises, over collections  *)
(* that hold payloads without id, without quote or without author.         *)
(***************************************************************************)
MalformedPoints == [payload : MalformedPayloads \cup {RooseveltQuote}, score : ScoreLevels]

NextMalformed ==
    \/ \E pt \in MalformedPoints : UpsertPoint(pt, MaxPoints)
    \/ \E question \in Questions, top_k \in 1..MaxTopK, analysis_mode \in AnalysisModeArgs,
          llm_answer \in LLMAnswers :
          ProcessQuery(question, top_k, analysis_mode, TRUE, "nobody", llm_answer)
    \/ Return

SpecMalformed == Init /\ [][NextMalformed]_vars

(***************************************************************************)
(* SpecTopK: calls in which no collaborator raises, for every top_k up to  *)
(* MaxRequestedTopK, over collections of at most one point.                *)
(***************************************************************************)
NextTopK ==
    \/ \E pt \in Points : UpsertPoint(pt, 1)
    \/ \E question \in Questions, top_k \in 1..MaxRequestedTopK,
          analysis_mode \in AnalysisModeArgs, llm_answer \in LLMAnswers :
          ProcessQuery(question, top_k, analysis_mode, TRUE, "nobody", llm_answer)
    \/ Return

SpecTopK == Init /\ [][NextTopK]_vars

(***************************************************************************)
(* SpecRanking: calls in which no collaborator raises, over collections of *)
(* up to MaxRankedPoints points.                                           *)
(***************************************************************************)
NextRanking ==
    \/ \E pt \in Points : UpsertPoint(pt, MaxRankedPoints)
    \/ \E question \in Questions, top_k \in 1..MaxTopK, analysis_mode \in AnalysisModeArgs,
          llm_answer \in LLMAnswers :
          ProcessQuery(question, top_k, analysis_mode, TRUE, "nobody", llm_answer)
    \/ Return

SpecRanking == Init /\ [][NextRanking]_vars

(***************************************************************************)
(* SpecDuplicates: the default pipeline over a collection of up to         *)
(* MaxDuplicatePoints points of two quotes, uploaded any number of times.  *)
(***************************************************************************)
DuplicatePoints == [payload : {BaconQuote, SocratesQuote}, score : {90}]

InitDuplicates ==
    Construct([use_enhanced |-> FALSE, default_analysis_mode |-> "standard"])

NextDuplicates ==
    \/ \E pt \in DuplicatePoints : UpsertPoint(pt, MaxDuplicatePoints)
    \/ \E top_k \in 1..MaxTopK, llm_answer \in LLMAnswers :
          ProcessQuery("Tell me of wisdom", top_k, None, TRUE, "nobody", llm_answer)
    \/ Return

SpecDuplicates == InitDuplicates /\ [][NextDuplicates]_vars

(***************************************************************************)
(* SpecCorpus: an enhanced pipeline asked "What did Roosevelt say about    *)
(* fear?" while the corpus of the Roosevelt quote and the other quotes is  *)
(* uploaded; the store may rank the Roosevelt quote anywhere and give any  *)
(* scores, the other quotes keep their order among themselves.             *)
(***************************************************************************)
RooseveltQuestion == "What did Roosevelt say about fear?"

\* the quotes of the corpus that may be uploaded next
next_corpus_payloads(pts) ==
    {p \in {RooseveltQuote} : p.id \notin QuoteIds(pts)}
    \cup {OtherQuotes[n] : n \in {m \in 1..Len(OtherQuotes) :
                m = Cardinality(QuoteIds(pts) \ {RooseveltQuote.id}) + 1}}

InitCorpus ==
    Construct([use_enhanced |-> TRUE, default_analysis_mode |-> "standard"])

NextCorpus ==
    \/ \E payload \in next_corpus_payloads(points), score \in ScoreLevels :
          UpsertPoint([payload |-> payload, score |-> score], CorpusSize)
    \/ \E top_k \in 1..MaxTopK, analysis_mode \in AnalysisModeArgs, llm_answer \in LLMAnswers :
          ProcessQuery(RooseveltQuestion, top_k, analysis_mode, TRUE, "nobody", llm_answer)
    \/ Return

SpecCorpus == InitCorpus /\ [][NextCorpus]_vars

(***************************************************************************)
(* EnhancedRAG (enhancements/simple_enhancement.py).  Scores are integers  *)
(* in thousandths; a point's score is the cosine similarity of its text to *)
(* the question asked, in two-hundredths (0.5 is 100), so that 0.4 times   *)
(* any such similarity is a whole number of thousandths.                   *)
(***************************************************************************)
\* analysis_boost = 0.3, in thousandths
analysis_boost == 300

interpretation_words ==
    {"mean", "meaning", "interpret", "explain", "significance",
     "analyze", "analysis", "what does", "why did", "how does"}

historical_words ==
    {"historical", "history", "context", "background", "era",
     "period", "century", "when", "during", "time"}

comparison_words ==
    {"compare", "contrast", "difference", "similar", "versus",
     "vs", "between", "both", "each"}

\* a mapping is a set of pairs <<name, variations>>
author_mappings ==
    {<<"roosevelt", {"franklin", "fdr", "eleanor"}>>,
     <<"martin luther king", {"mlk", "king jr", "martin luther", "dr king"}>>,
     <<"einstein", {"albert"}>>,
     <<"gandhi", {"mahatma"}>>,
     <<"mandela", {"nelson"}>>,
     <<"churchill", {"winston"}>>,
     <<"lincoln", {"abraham"}>>,
     <<"aristotle", {}>>,
     <<"confucius", {}>>,
     <<"curie", {"marie"}>>,
     <<"da vinci", {"leonardo"}>>,
     <<"newton", {"isaac"}>>,
     <<"edison", {"thomas"}>>,
     <<"armstrong", {"neil"}>>}

topic_mappings ==
    {<<"fear", {"afraid", "scared", "frightened", "anxiety"}>>,
     <<"dream", {"dreamed", "dreamt", "aspiration", "vision"}>>,
     <<"change", {"transform", "different", "alter", "modify"}>>,
     <<"perseverance", {"persist", "never give up", "keep going", "resilience",
                        "determination"}>>,
     <<"leadership", {"leader", "govern", "government", "authority", "management"}>>,
     <<"imagination", {"imagine", "creative", "creativity", "innovation", "invention"}>>,
     <<"science", {"scientific", "knowledge", "learn", "discovery", "research"}>>,
     <<"courage", {"brave", "bravery", "bold", "fearless", "heroic"}>>,
     <<"equality", {"equal", "rights", "civil rights", "justice", "fairness"}>>,
     <<"freedom", {"free", "liberty", "independence", "autonomy"}>>,
     <<"success", {"achieve", "achievement", "accomplish", "victory", "triumph"}>>,
     <<"failure", {"fail", "mistake", "error", "defeat", "loss"}>>,
     <<"hope", {"hopeful", "optimistic", "expectation", "aspiration"}>>}

\* the keywords the two loops over a mapping add: a name found in the query
\* brings its variations, a variation found brings the name
mapped_keywords(mappings, query_lower) ==
    UNION {{m[1]} \cup m[2] : m \in {n \in mappings : Contains(query_lower, n[1])}}
    \cup {m[1] : m \in {n \in mappings : \E v \in n[2] : Contains(query_lower, v)}}

enhanced_stop_words ==
    {"what", "who", "when", "where", "why", "how", "said",
     "say", "about", "some", "the", "a", "an", "and", "or",
     "but", "in", "on", "at", "to", "for", "of", "with", "by",
     "does", "did", "do", "can", "could", "would", "should"}

any_word_in(words, query_lower) == \E w \in words : Contains(query_lower, w)

intent_type(interpretation, historical, comparison) ==
    IF interpretation THEN "interpretation"
    ELSE IF historical THEN "historical"
    ELSE IF comparison THEN "comparison"
    ELSE "retrieval"

\* _extract_keywords_and_intent on the lower-cased query; list(set(keywords))
\* is a set
keywords_and_intent_of(query_lower) ==
    [keywords |-> mapped_keywords(author_mappings, query_lower)
                    \cup mapped_keywords(topic_mappings, query_lower)
                    \cup (Range(FindWords(query_lower, 1)) \ enhanced_stop_words),
     intent |-> [interpretation |-> any_word_in(interpretation_words, query_lower),
                 historical |-> any_word_in(historical_words, query_lower),
                 comparison |-> any_word_in(comparison_words, query_lower),
                 type |-> intent_type(any_word_in(interpretation_words, query_lower),
                                      any_word_in(historical_words, query_lower),
                                      any_word_in(comparison_words, query_lower))]]

\* an extractor that leaves out the keywords it has returned before
extract_only_new_keywords(query) ==
    [keywords |-> keywords_and_intent_of(Lower(query)).keywords
                    \ UNION {analyses[i][2].keywords : i \in 1..Len(analyses)},
     intent |-> keywords_and_intent_of(Lower(query)).intent]

extract_keywords_and_intent(query) == keywords_and_intent_of(Lower(query))

\* _extract_keywords_and_intent, tabulated per question
query_analysis == [q \in Questions |-> extract_keywords_and_intent(q)]

\* a payload whose id is 0: `not doc_id` holds for it as for a missing id
ZeroIdQuote ==
    [id |-> 0,
     quote |-> "Eureka!",
     author |-> "Archimedes",
     topic |-> "Discovery, Science"]

EnhancedPayloads == Payloads \cup {ZeroIdQuote}

\* the text of a payload that _calculate_document_score reads, lower-cased
lower_text(payload) ==
    [author |-> Lower(Get(payload, "author", "")),
     topic |-> Lower(Get(payload, "topic", "")),
     quote |-> Lower(Get(payload, "quote", ""))]

\* the fields of a payload that lower_text reads
text_fields(payload) ==
    [author |-> Get(payload, "author", ""),
     topic |-> Get(payload, "topic", ""),
     quote |-> Get(payload, "quote", "")]

doc_content(t) == JoinSpace(<<t.author, t.topic, t.quote>>)

\* a keyword that counts 1 wherever it is found
keyword_weight_flat(keyword, t) ==
    IF Contains(doc_content(t), keyword) THEN 1 ELSE 0

\* what one keyword adds to keyword_score: 1 if it is in the document's
\* text, 2 more if it is in the author, 1 more if it is in the topic
keyword_weight(keyword, t) ==
    IF ~Contains(doc_content(t), keyword) THEN 0
    ELSE 1 + (IF Contains(t.author, keyword) THEN 2 ELSE 0)
           + (IF Contains(t.topic, keyword) THEN 1 ELSE 0)

RECURSIVE sum_keyword_weights(_, _)
sum_keyword_weights(keywords, t) ==
    IF keywords = {} THEN 0
    ELSE keyword_weight(CHOOSE k \in keywords : TRUE, t)
            + sum_keyword_weights(keywords \ {CHOOSE k \in keywords : TRUE}, t)

\* keyword_score of _calculate_document_score, tabulated per question and
\* per text a stored payload gives
keyword_score ==
    [q \in Questions, f \in {text_fields(p) : p \in StoredPayloads \cup EnhancedPayloads} |->
        sum_keyword_weights(query_analysis[q].keywords, lower_text(f))]

has_analysis_data(payload) ==
    \/ TruthyStr(Get(payload, "interpretation", ""))
    \/ TruthyStr(Get(payload, "historical_significance", ""))

doc_analysis_boost(payload, intent) ==
    IF ~has_analysis_data(payload) THEN 0
    ELSE IF intent.interpretation \/ intent.historical THEN (analysis_boost * 3) \div 2
    ELSE analysis_boost

doc_intent_boost(payload, intent) ==
    (IF intent.interpretation /\ TruthyStr(Get(payload, "interpretation", ""))
        THEN 200 ELSE 0)
    + (IF intent.historical /\ TruthyStr(Get(payload, "historical_significance", ""))
        THEN 200 ELSE 0)
    + (IF intent.comparison /\ TruthyStr(Get(payload, "themes", "")) THEN 100 ELSE 0)

\* _calculate_document_score for a document of the given semantic score;
\* matched_keywords is only printed and is left out
final_score_with(payload, semantic_score, keyword_points, intent) ==
    semantic_score * 2 + keyword_points * 300
        + doc_analysis_boost(payload, intent) + doc_intent_boost(payload, intent)

calculate_document_score(payload, semantic_score, question) ==
    [final_score |-> final_score_with(payload, semantic_score,
                                      keyword_score[question, text_fields(payload)],
                                      query_analysis[question].intent),
     semantic_score |-> semantic_score,
     keyword_score |-> keyword_score[question, text_fields(payload)],
     analysis_boost |-> doc_analysis_boost(payload, query_analysis[question].intent),
     intent_boost |-> doc_intent_boost(payload, query_analysis[question].intent),
     has_analysis |-> has_analysis_data(payload)]

\* EnhancedRAG._build_search_payload with include_analysis, then the
\* doc.update of process_query
scored_doc(payload, score_details, intent) ==
    [id |-> GetOpt(payload, "id"),
     quote |-> Get(payload, "quote", ""),
     author |-> Get(payload, "author", "Unknown"),
     topic |-> Get(payload, "topic", ""),
     tags |-> Get(payload, "tags", <<>>),
     score |-> score_details.final_score,
     interpretation |-> Get(payload, "interpretation", ""),
     historical_significance |-> Get(payload, "historical_significance", ""),
     themes |-> Get(payload, "themes", ""),
     has_analysis |-> has_analysis_data(payload),
     score_details |-> score_details,
     query_intent |-> intent.type]

\* `not doc_id` is false: the payload has an id and it is not 0
has_doc_id(pt) == "id" \in DOMAIN pt.payload /\ pt.payload.id # 0

score_points(pts, question) ==
    [i \in 1..Len(pts) |->
        scored_doc(pts[i].payload,
                   calculate_document_score(pts[i].payload, pts[i].score, question),
                   query_analysis[question].intent)]

\* the loop of process_query over the scrolled points
score_all_docs(pts, question) == score_points(SelectSeq(pts, has_doc_id), question)

doc_with_analysis(d) == d.score_details.has_analysis

doc_without_analysis(d) == ~d.score_details.has_analysis

\* the branch of _select_best_documents for interpretation and historical
\* queries, on the sorted documents
prefer_analysis_docs(sorted, top_k) ==
    IF SelectSeq(sorted, doc_with_analysis) = <<>> THEN Take(sorted, top_k)
    ELSE Take(Take(SelectSeq(sorted, doc_with_analysis), top_k)
                \o Take(SelectSeq(sorted, doc_without_analysis),
                        Max(0, top_k - Len(Take(SelectSeq(sorted, doc_with_analysis), top_k)))),
              top_k)

\* a selection that takes the top_k best scored documents for every intent
select_top_scored(scored_docs, top_k, intent) == Take(sort_by_score_desc(scored_docs), top_k)

\* _select_best_documents; the sort key final_score is the document's score
select_best_documents(scored_docs, top_k, intent) ==
    IF intent.interpretation \/ intent.historical
    THEN prefer_analysis_docs(sort_by_score_desc(scored_docs), top_k)
    ELSE Take(sort_by_score_desc(scored_docs), top_k)

\* the limit of the scroll over the collection
scroll_limit == 150

scroll(pts) == Take(pts, scroll_limit)

EnhancedAnalysisModes == {"auto", "basic", "comprehensive"}

use_comprehensive(analysis_mode, intent) ==
    IF analysis_mode = "auto" THEN intent.interpretation \/ intent.historical
    ELSE analysis_mode = "comprehensive"

\* the tests of process_query on the lower-cased answer, per answer
contains_interpretation ==
    [answer \in LLMAnswers |->
        any_word_in({"means", "meaning", "signifies", "interpret"}, Lower(answer))]

contains_context ==
    [answer \in LLMAnswers |->
        any_word_in({"historical", "context", "era", "during"}, Lower(answer))]

\* the except branch of EnhancedRAG.process_query
enhanced_error_response(e) ==
    [answer |-> "Error in analysis-aware RAG: " \o e,
     retrieved_count |-> 0,
     search_results |-> <<>>,
     method |-> "analysis_aware_retrieval",
     error |-> TRUE]

\* the return of EnhancedRAG.process_query
enhanced_response(question, selected_docs, comprehensive, answer) ==
    [answer |-> answer,
     retrieved_count |-> Len(selected_docs),
     search_results |-> selected_docs,
     method |-> "analysis_aware_retrieval",
     query_analysis |-> query_analysis[question],
     answer_type |-> IF comprehensive THEN "comprehensive_analysis" ELSE "standard_answer",
     analysis_mode |-> IF comprehensive THEN "comprehensive" ELSE "standard",
     contains_interpretation |-> contains_interpretation[answer],
     contains_historical_context |-> contains_context[answer],
     intent_matched |-> query_analysis[question].intent.type]

\* EnhancedRAG.process_query once the documents are selected
enhanced_answer(question, selected_docs, comprehensive, raiser, llm_answer) ==
    [response |->
        IF raiser = "llm" THEN enhanced_error_response(raiser)
        ELSE enhanced_response(question, selected_docs, comprehensive, llm_answer),
     prompts |->
        <<[method |-> IF comprehensive THEN "format_rag_prompt_with_analysis"
                      ELSE "format_rag_prompt",
           docs |-> Len(selected_docs)]>>]

\* EnhancedRAG.process_query:
\* [response |-> the dict returned, prompts |-> the prompts sent to the LLM]
enhanced_process_query(pts, question, top_k, analysis_mode, raiser, llm_answer) ==
    IF raiser \in {"embedder", "store"}
    THEN [response |-> enhanced_error_response(raiser), prompts |-> <<>>]
    ELSE enhanced_answer(question,
             select_best_documents(score_all_docs(scroll(pts), question), top_k,
                                   query_analysis[question].intent),
             use_comprehensive(analysis_mode, query_analysis[question].intent),
             raiser, llm_answer)

(***************************************************************************)
(* The state machine of EnhancedRAG over the same collection: points are   *)
(* uploaded in scroll order and queries are processed one at a time.       *)
(***************************************************************************)
\* cosine similarities of a document's text to the question, in
\* two-hundredths: -1 and 1
SemanticLevels == {-200, 200}

\* a point is uploaded; the embedder gives equal texts equal similarities
UpsertScoredPoint(pt, max_points) ==
    /\ request = None
    /\ Len(points) < max_points
    /\ \A i \in 1..Len(points) :
          text_fields(points[i].payload) = text_fields(pt.payload)
              => points[i].score = pt.score
    /\ points' = Append(points, pt)
    /\ UNCHANGED <<client_vars, pipeline_vars, call_vars>>

\* EnhancedRAG.process_query
EnhancedProcessQuery(question, top_k, analysis_mode, raiser, llm_answer) ==
    /\ request = None
    /\ Respond(enhanced_process_query(points, question, top_k, analysis_mode,
                                      raiser, llm_answer))
    /\ request' = Some([question |-> question, top_k |-> top_k,
                        analysis_mode |-> analysis_mode])
    /\ raised' = raiser
    /\ UNCHANGED <<client_vars, pipeline_vars, points>>

(***************************************************************************)
(* SpecEnhancedRAG: every question, mode and failing collaborator over     *)
(* collections of up to MaxEnhancedPoints points.                          *)
(***************************************************************************)
InitEnhancedRAG ==
    Construct([use_enhanced |-> FALSE, default_analysis_mode |-> "standard"])

EnhancedPoints == [payload : EnhancedPayloads, score : SemanticLevels]

NextEnhancedRAG ==
    \/ \E pt \in EnhancedPoints : UpsertScoredPoint(pt, MaxEnhancedPoints)
    \/ \E question \in Questions, top_k \in 1..MaxTopK, analysis_mode \in EnhancedAnalysisModes,
          raiser \in Raisers, llm_answer \in LLMAnswers :
          EnhancedProcessQuery(question, top_k, analysis_mode, raiser, llm_answer)
    \/ Return

SpecEnhancedRAG == InitEnhancedRAG /\ [][NextEnhancedRAG]_vars

(***************************************************************************)
(* SpecEnhancedCorpus: EnhancedRAG asked "What did Roosevelt say about     *)
(* fear?" while the corpus is uploaded.  The Roosevelt quote stands first  *)
(* or last in scroll order, with either similarity, with or without its    *)
(* analysis fields; each other quote is uploaded either without analysis   *)
(* fields at the lowest similarity or with them at the highest.            *)
(***************************************************************************)
analysis_field_names == {"interpretation", "historical_significance", "themes"}

without_analysis(payload) ==
    [k \in DOMAIN payload \ analysis_field_names |-> payload[k]]

with_analysis(payload) ==
    [k \in DOMAIN payload \cup {"interpretation", "historical_significance"} |->
        IF k \in DOMAIN payload THEN payload[k] ELSE "Recorded by the curator"]

lowest(levels) == CHOOSE x \in levels : \A y \in levels : x <= y

highest(levels) == CHOOSE x \in levels : \A y \in levels : x >= y

\* the Roosevelt quote is uploaded first or last
roosevelt_may_follow(pts) ==
    /\ RooseveltQuote.id \notin QuoteIds(pts)
    /\ Len(pts) \in {0, Len(OtherQuotes)}

\* the points of the corpus that may be uploaded next
next_corpus_points(pts) ==
    {[payload |-> v, score |-> sc] :
        v \in {without_analysis(p) : p \in {q \in {RooseveltQuote} : roosevelt_may_follow(pts)}}
              \cup {with_analysis(p) : p \in {q \in {RooseveltQuote} : roosevelt_may_follow(pts)}},
        sc \in SemanticLevels}
    \cup {[payload |-> without_analysis(p), score |-> lowest(SemanticLevels)] :
            p \in next_corpus_payloads(pts) \ {RooseveltQuote}}
    \cup {[payload |-> with_analysis(p), score |-> highest(SemanticLevels)] :
            p \in next_corpus_payloads(pts) \ {RooseveltQuote}}

NextEnhancedCorpus ==
    \/ \E pt \in next_corpus_points(points) : UpsertScoredPoint(pt, CorpusSize)
    \/ \E top_k \in 1..MaxTopK, analysis_mode \in EnhancedAnalysisModes,
          llm_answer \in LLMAnswers :
          EnhancedProcessQuery(RooseveltQuestion, top_k, analysis_mode, "nobody", llm_answer)
    \/ Return

SpecEnhancedCorpus == InitEnhancedRAG /\ [][NextEnhancedCorpus]_vars

(***************************************************************************)
(* RAGMetrics (evaluation/metrics.py).  Scores are integers in             *)
(* ten-thousandths; the similarity the embedder gives is an input of the   *)
(* call, in hundredths of the 0..1 scale.                                  *)
(***************************************************************************)
EN_STOPWORDS ==
    {"the", "a", "an", "and", "or", "but", "if", "then", "else", "so",
     "to", "of", "in", "on", "at", "by", "for", "with", "from", "as",
     "is", "are", "was", "were", "be", "been", "being", "it", "this", "that",
     "these", "those", "i", "you", "we", "they", "he", "she", "them", "him", "her",
     "my", "your", "our", "their", "his", "hers", "ours", "theirs",
     "what", "who", "when", "where", "why", "how", "which",
     "do", "does", "did", "done", "can", "could", "would", "should", "may", "might",
     "not", "no", "yes", "very", "more", "most", "less", "least",
     "about", "into", "over", "under", "again", "also", "than"}

IsSpace(c) == c \in {" ", "\t", "\n"}

IsNotSpace(c) == ~IsSpace(c)

\* str.split(): the maximal runs of characters that are not whitespace
SplitWhitespace(s, i) == Runs(s, i, IsNotSpace)

\* _clean_text: strip, and every run of whitespace becomes one space
clean_text(s) == JoinSpace(SplitWhitespace(s, 1))

IsTokenChar(c) == IsLetter(c) \/ c = "'"

\* re.findall(r"[a-zA-Z']+", s)
FindTokens(s, i) == Runs(s, i, IsTokenChar)

is_content_word(w) == Len(w) >= 3 /\ w \notin EN_STOPWORDS

tokenize_words(s) == SelectSeq(FindTokens(Lower(clean_text(s)), 1), is_content_word)

AllDigits(s) == \A i \in 1..Len(s) : IndexIn(Digits, CharAt(s, i)) # 0

is_short_number(w) == Len(w) <= 4 /\ AllDigits(w)

\* _extract_numbers: re.findall(r"\b\d{1,4}\b", s)
extract_numbers(s) == SelectSeq(WordRuns(clean_text(s), 1), is_short_number)

non_empty(part) == part # ""

\* the parts _context_to_text appends for one document
context_parts(d) ==
    <<Get(d, "quote", ""), Get(d, "author", ""), Get(d, "topic", ""), Get(d, "era", ""),
      Get(d, "context", ""), Get(d, "source", ""), Get(d, "interpretation", ""),
      Get(d, "historical_significance", ""), Get(d, "themes", ""),
      Get(d, "modern_relevance", ""), JoinSpace(Get(d, "tags", <<>>))>>

RECURSIVE all_context_parts(_)
all_context_parts(context_docs) ==
    IF context_docs = <<>> THEN <<>>
    ELSE context_parts(Head(context_docs)) \o all_context_parts(Tail(context_docs))

context_to_text(context_docs) ==
    clean_text(JoinSpace(SelectSeq(all_context_parts(context_docs), non_empty)))

\* the sentence the prompts tell the LLM to answer with when the context
\* has no answer
RefusalAnswer == "I cannot find that information in my knowledge base"

MetricAnswers ==
    {"", RefusalAnswer, "Roosevelt spoke of fear in 1933", "Knowledge is power."}

\* documents handed to the metrics:  a quote with its year, a quote without
\* numbers, a document without any text, and a note that holds the words of
\* the refusal sentence
MetricDocs ==
    {[id |-> 1, quote |-> "The only thing we have to fear is fear itself.",
      author |-> "Franklin D. Roosevelt", era |-> "1933",
      tags |-> <<"courage", "depression">>],
     BaconQuote,
     [id |-> 11],
     [id |-> 12, quote |-> "I cannot find the base of my knowledge",
      context |-> "A note on information"]}

MetricContexts == UNION {[1..n -> MetricDocs] : n \in 0..MaxContextDocs}

\* the similarities (sim + 1) / 2 of an answer to a context, in hundredths
SimilarityLevels == {0, 50, 100}

\* per answer and per context, the words and numbers the score compares
answer_words == [a \in MetricAnswers |-> tokenize_words(a)]

answer_numbers == [a \in MetricAnswers |-> Range(extract_numbers(a))]

context_text == [c \in MetricContexts |-> context_to_text(c)]

context_words == [c \in MetricContexts |-> Range(tokenize_words(context_to_text(c)))]

context_numbers == [c \in MetricContexts |-> Range(extract_numbers(context_to_text(c)))]

\* context_grounded_score, given the similarity the embedder would report
context_grounded_score(generated_answer, context_docs, similarity, has_embedder) ==
    IF generated_answer = "" \/ context_docs = <<>> \/ ~has_embedder THEN 0
    ELSE IF context_text[context_docs] = "" THEN 0
    ELSE similarity

\* min(0.3, 0.1 * len(missing)) for the numbers of the answer the context lacks
num_penalty(generated_answer, context_docs) ==
    Min(3000, 1000 * Cardinality(answer_numbers[generated_answer]
                                    \ context_numbers[context_docs]))

\* the words of the answer, repeats included, that the context lacks
missing_words(generated_answer, context_docs) ==
    SelectSeq(answer_words[generated_answer],
              LAMBDA w : w \notin context_words[context_docs])

\* halluc before it is cut off, as a fraction: <<numerator, denominator>>
\* with the denominator max(1, len(ans_words))
halluc_fraction(grounded, penalty, missing, total) ==
    <<((100 - grounded) * 35 + penalty) * Max(1, total) + 2500 * missing, Max(1, total)>>

\* max(0.0, min(1.0, halluc)), then 0.0 below 0.05
cut_off(fraction) ==
    IF fraction[1] < 500 * fraction[2] THEN 0
    ELSE Min(10000, fraction[1] \div fraction[2])

\* RAGMetrics.hallucination_score
hallucination_score(generated_answer, context_docs, similarity, has_embedder) ==
    IF generated_answer = "" THEN 0
    ELSE IF context_docs = <<>> THEN 3500
    ELSE IF context_text[context_docs] = "" THEN 3500
    ELSE cut_off(halluc_fraction(
            context_grounded_score(generated_answer, context_docs, similarity, has_embedder),
            num_penalty(generated_answer, context_docs),
            Len(missing_words(generated_answer, context_docs)),
            Len(answer_words[generated_answer])))

\* RAGMetrics.hallucination_score is called and returns
HallucinationScore(generated_answer, context_docs, similarity, has_embedder) ==
    /\ request = None
    /\ request' = Some([metric |-> "hallucination_score",
                        generated_answer |-> generated_answer,
                        context_docs |-> context_docs,
                        grounded |-> context_grounded_score(generated_answer, context_docs,
                                                            similarity, has_embedder)])
    /\ response' = Some(hallucination_score(generated_answer, context_docs, similarity,
                                            has_embedder))
    /\ UNCHANGED <<client_vars, pipeline_vars, points, raised, llm_prompts>>

(***************************************************************************)
(* SpecMetrics: hallucination_score over every answer, context and         *)
(* similarity of the model.                                                *)
(***************************************************************************)
InitMetrics ==
    Construct([use_enhanced |-> FALSE, default_analysis_mode |-> "standard"])

NextMetrics ==
    \/ \E generated_answer \in MetricAnswers, context_docs \in MetricContexts,
          similarity \in SimilarityLevels, has_embedder \in BOOLEAN :
          HallucinationScore(generated_answer, context_docs, similarity, has_embedder)
    \/ Return

SpecMetrics == InitMetrics /\ [][NextMetrics]_vars

(***************************************************************************)
(* RAGMetrics.retrieval_precision and retrieval_recall.  A result is the   *)
(* quotient as a pair <<numerator, denominator>>; 0.0 is <<0, 1>>.         *)
(***************************************************************************)
IdLists == UNION {[1..n -> 1..MaxId] : n \in 0..MaxIdListLen}

relevant_retrieved(retrieved_ids, expected_ids) == Range(retrieved_ids) \cap Range(expected_ids)

retrieval_precision(retrieved_ids, expected_ids) ==
    IF retrieved_ids = <<>> THEN <<0, 1>>
    ELSE <<Cardinality(relevant_retrieved(retrieved_ids, expected_ids)), Len(retrieved_ids)>>

\* a recall that divides by the number of retrieved ids
recall_over_retrieved(retrieved_ids, expected_ids) ==
    IF expected_ids = <<>> THEN <<0, 1>>
    ELSE <<Cardinality(relevant_retrieved(retrieved_ids, expected_ids)), Max(1, Len(retrieved_ids))>>

retrieval_recall(retrieved_ids, expected_ids) ==
    IF expected_ids = <<>> THEN <<0, 1>>
    ELSE <<Cardinality(relevant_retrieved(retrieved_ids, expected_ids)), Len(expected_ids)>>

\* RAGMetrics.retrieval_precision is called and returns
RetrievalPrecision(retrieved_ids, expected_ids) ==
    /\ request = None
    /\ request' = Some([metric |-> "retrieval_precision",
                        retrieved_ids |-> retrieved_ids, expected_ids |-> expected_ids])
    /\ response' = Some(retrieval_precision(retrieved_ids, expected_ids))
    /\ UNCHANGED <<client_vars, pipeline_vars, points, raised, llm_prompts>>

\* RAGMetrics.retrieval_recall is called and returns
RetrievalRecall(retrieved_ids, expected_ids) ==
    /\ request = None
    /\ request' = Some([metric |-> "retrieval_recall",
                        retrieved_ids |-> retrieved_ids, expected_ids |-> expected_ids])
    /\ response' = Some(retrieval_recall(retrieved_ids, expected_ids))
    /\ UNCHANGED <<client_vars, pipeline_vars, points, raised, llm_prompts>>

(***************************************************************************)
(* SpecRetrievalMetrics: precision and recall over every pair of id lists. *)
(***************************************************************************)
NextRetrievalMetrics ==
    \/ \E retrieved_ids \in IdLists, expected_ids \in IdLists :
          RetrievalPrecision(retrieved_ids, expected_ids)
    \/ \E retrieved_ids \in IdLists, expected_ids \in IdLists :
          RetrievalRecall(retrieved_ids, expected_ids)
    \/ Return

SpecRetrievalMetrics == InitMetrics /\ [][NextRetrievalMetrics]_vars

(***************************************************************************)
(* RAGEvaluator.  Every metric of the evaluator is an integer: 1.0 is One, *)
(* so that n/2, n/3, 0.2, 0.3, 0.4 and 0.003 are integers too.  An average *)
(* is the pair <<sum, number of values>>; 0.0 of an empty list is <<0, 1>>.*)
(* response_time is in whole time units.                                   *)
(***************************************************************************)
One == 3 * 1000

RECURSIVE Sum(_)
Sum(values) == IF values = <<>> THEN 0 ELSE Head(values) + Sum(Tail(values))

\* the number of the keywords that occur in text
keyword_count(keywords, text) == Cardinality({keyword \in keywords : Contains(text, keyword)})

interpretation_keywords ==
    {"means", "meaning", "interpret", "signifies", "suggests",
     "implies", "indicates", "represents", "symbolizes", "conveys"}

context_keywords ==
    {"historical", "context", "era", "period", "century", "year",
     "during", "when", "background", "circumstances", "situation",
     "event", "movement", "war", "depression", "rights", "struggle"}

explanation_indicators ==
    {"because", "therefore", "thus", "hence", "consequently",
     "as a result", "in order to", "so that", "due to", "owing to",
     "explain", "analysis", "analyze", "discuss", "elaborate",
     "detail", "comprehensive", "thorough", "depth"}

thematic_keywords ==
    {"theme", "thematic", "concept", "idea", "philosophy",
     "principle", "value", "belief", "message", "moral",
     "lesson", "insight", "perspective", "viewpoint", "approach"}

\* any(doc.get(field) for doc in docs)
any_doc_has(docs, field) ==
    \E i \in 1..Len(docs) : field \in DOMAIN docs[i] /\ TruthyStr(docs[i][field])

\* min(score + 0.2, 1.0) when the documents carry the field and the score is positive
doc_bonus(score, docs, field) ==
    IF any_doc_has(docs, field) /\ score > 0 THEN Min(score + One \div 5, One) ELSE score

\* RAGEvaluator._analyze_answer_quality, on the lower-cased answer
analyze_answer_quality(answer_lower, docs) ==
    IF answer_lower = "" \/ docs = <<>>
    THEN [interpretation_score |-> 0, historical_context_score |-> 0,
          explanation_depth |-> 0, thematic_analysis |-> 0]
    ELSE [interpretation_score |->
              doc_bonus(Min(keyword_count(interpretation_keywords, answer_lower) * (One \div 2), One),
                        docs, "interpretation"),
          historical_context_score |->
              doc_bonus(Min(keyword_count(context_keywords, answer_lower) * (One \div 3), One),
                        docs, "historical_significance"),
          explanation_depth |->
              Min(keyword_count(explanation_indicators, answer_lower) * (One \div 3), One),
          thematic_analysis |->
              Min(keyword_count(thematic_keywords, answer_lower) * (One \div 2), One)]

interpretation_question_keywords == {"mean", "meaning", "interpret", "significance", "explain"}

interpretation_markers ==
    {"means that", "this means", "signifies that", "indicates that",
     "suggests that", "represents", "symbolizes", "conveys that"}

\* 0.4 for a marker, 0.3 for a causal word, 0.3 * min(words / 100, 1.0)
interpretation_quality_of(has_marker, has_causal, answer_length_words) ==
    Min((IF has_marker THEN 2 * (One \div 5) ELSE 0) + (IF has_causal THEN 3 * (One \div 10) ELSE 0)
            + (Min(answer_length_words * (One \div 100), One) * 3) \div 10,
        One)

\* RAGEvaluator._evaluate_interpretation_specific
evaluate_interpretation_specific(question, answer) ==
    IF ~ \E keyword \in interpretation_question_keywords : Contains(Lower(question), keyword)
    THEN [is_interpretation_question |-> FALSE, interpretation_quality |-> 0,
          has_interpretation |-> FALSE]
    ELSE [is_interpretation_question |-> TRUE,
          interpretation_quality |->
              interpretation_quality_of(
                  \E marker \in interpretation_markers : Contains(Lower(answer), marker),
                  \E word \in {"because", "therefore", "thus"} : Contains(Lower(answer), word),
                  Len(SplitWhitespace(answer, 1))),
          has_interpretation |->
              \E marker \in interpretation_markers : Contains(Lower(answer), marker),
          has_causal_explanation |->
              \E word \in {"because", "therefore", "thus"} : Contains(Lower(answer), word),
          answer_length_words |-> Len(SplitWhitespace(answer, 1))]

\* the test cases of the datasets: a question that asks for a meaning, and one
\* that does not
EvalCases ==
    {[question |-> "What does Roosevelt's 'fear itself' quote mean?",
      expected_quote_ids |-> <<1>>,
      expected_answer |-> "Fear itself is the only thing to fear."],
     [question |-> "What did Roosevelt say about fear?",
      expected_quote_ids |-> <<1, 2>>,
      expected_answer |-> "The only thing we have to fear is fear itself."]}

EvalDatasets == UNION {[1..n -> EvalCases] : n \in 0..MaxCases}

\* what process_query returns when its embedder or its vector store fails
FailingComponents == {"embedder", "store"}

ErrorResults ==
    {process_query(FALSE, "standard", <<>>, test_case.question, MaxTopK, analysis_mode, TRUE,
                   raiser, "").response :
        test_case \in EvalCases, analysis_mode \in {None, Some("comprehensive")},
        raiser \in FailingComponents}

\* what the pipeline's process_query hands to the evaluator: an answer built
\* on one document, a refusal without documents, and the error responses
EvalResults ==
    {[answer |-> "This means that fear paralyzes us because we let it",
      search_results |-> <<RooseveltQuote>>,
      analysis_mode |-> "standard", answer_type |-> "standard_answer"],
     [answer |-> RefusalAnswer, search_results |-> <<>>]} \cup ErrorResults

\* the scores RAGMetrics.answer_relevance and hallucination_score may return
MetricLevels == {0, One}

\* time.time() differences
ResponseTimes == {1, 2}

\* per answer and per question, what the two analysis helpers return
answer_quality ==
    [result \in EvalResults |-> analyze_answer_quality(Lower(result.answer), result.search_results)]

interpretation_evaluation ==
    [test_case \in EvalCases |->
        [result \in EvalResults |->
            evaluate_interpretation_specific(test_case.question, result.answer)]]

\* retrieval_precision and retrieval_recall as floats of the evaluator
as_metric(quotient) == (quotient[1] * One) \div quotient[2]

ids_of(docs) == [i \in 1..Len(docs) |-> docs[i].id]

\* the record of one completed case, before the analysis metrics
test_result_of(test_case, result, relevance, hallucination, response_time) ==
    [question |-> test_case.question,
     retrieved_ids |-> ids_of(Get(result, "search_results", <<>>)),
     expected_ids |-> test_case.expected_quote_ids,
     answer |-> Get(result, "answer", ""),
     expected_answer |-> test_case.expected_answer,
     metrics |->
        [precision |-> as_metric(retrieval_precision(ids_of(Get(result, "search_results", <<>>)),
                                                     test_case.expected_quote_ids)),
         recall |-> as_metric(retrieval_recall(ids_of(Get(result, "search_results", <<>>)),
                                               test_case.expected_quote_ids)),
         relevance |-> relevance,
         hallucination |-> hallucination,
         response_time |-> response_time],
     pipeline_info |->
        [analysis_mode |-> Get(result, "analysis_mode", "standard"),
         answer_type |-> Get(result, "answer_type", "unknown"),
         has_interpretation_data |-> Get(result, "has_interpretation", FALSE),
         has_historical_context_data |-> Get(result, "has_historical_context", FALSE),
         includes_analysis |-> Get(result, "includes_analysis", FALSE)]]

\* test_result with analysis_metrics and interpretation_evaluation
with_analysis_metrics(test_result, analysis_scores, interpretation_eval) ==
    [key \in DOMAIN test_result \cup {"analysis_metrics", "interpretation_evaluation"} |->
        IF key = "analysis_metrics" THEN analysis_scores
        ELSE IF key = "interpretation_evaluation" THEN interpretation_eval
        ELSE test_result[key]]

\* the appends to the lists of analysis_metrics
append_analysis_metrics(analysis_metrics, analysis_scores, interpretation_eval) ==
    [key \in DOMAIN analysis_metrics |->
        IF key \in DOMAIN analysis_scores THEN Append(analysis_metrics[key], analysis_scores[key])
        ELSE IF key = "interpretation_quality" /\ interpretation_eval.is_interpretation_question
        THEN Append(analysis_metrics[key], interpretation_eval.interpretation_quality)
        ELSE analysis_metrics[key]]

\* sum(values) / len(values), or 0.0
average(values) == IF values = <<>> THEN <<0, 1>> ELSE <<Sum(values), Len(values)>>

averages(metric_lists) == [key \in DOMAIN metric_lists |-> average(metric_lists[key])]

\* avg_metrics.update(avg_analysis_metrics)
updated(avg_metrics, avg_analysis_metrics) ==
    [key \in DOMAIN avg_metrics \cup DOMAIN avg_analysis_metrics |->
        IF key \in DOMAIN avg_analysis_metrics THEN avg_analysis_metrics[key]
        ELSE avg_metrics[key]]

\* the dict run_evaluation returns
evaluation_report(ev) ==
    [test_results |-> ev.results,
     average_metrics |->
        IF ev.include_analysis_metrics
        THEN updated(averages(ev.total_metrics), averages(ev.analysis_metrics))
        ELSE averages(ev.total_metrics),
     config |->
        [top_k |-> ev.top_k,
         num_queries |-> Len(ev.eval_data),
         successful_queries |-> Len(ev.results),
         include_analysis_metrics |-> ev.include_analysis_metrics,
         analysis_mode |-> ev.analysis_mode]]

\* the locals of run_evaluation before the first case; outcomes records, per
\* case processed, whether it completed or raised, and calls the calls of
\* process_query made in the latest pass of the loop
evaluation_start(eval_data, top_k, include_analysis_metrics, analysis_mode) ==
    [eval_data |-> eval_data,
     top_k |-> top_k,
     include_analysis_metrics |-> include_analysis_metrics,
     analysis_mode |-> analysis_mode,
     results |-> <<>>,
     total_metrics |->
        [precision |-> <<>>, recall |-> <<>>, relevance |-> <<>>, hallucination |-> <<>>,
         response_time |-> <<>>],
     analysis_metrics |->
        IF include_analysis_metrics
        THEN [interpretation_score |-> <<>>, historical_context_score |-> <<>>,
              explanation_depth |-> <<>>, thematic_analysis |-> <<>>,
              interpretation_quality |-> <<>>]
        ELSE <<>>,
     outcomes |-> <<>>,
     calls |-> <<>>,
     report |->
        IF eval_data = <<>> THEN Some([test_results |-> <<>>, average_metrics |-> <<>>])
        ELSE None]

\* the case raised: it is logged and the loop continues
case_skipped(ev) == [ev EXCEPT !.outcomes = Append(@, "raised")]

\* the case completed with test_result
case_completed(ev, test_result, analysis_scores, interpretation_eval) ==
    [ev EXCEPT
        !.results = Append(@, IF ev.include_analysis_metrics
                              THEN with_analysis_metrics(test_result, analysis_scores,
                                                         interpretation_eval)
                              ELSE test_result),
        !.total_metrics = [key \in DOMAIN @ |-> Append(@[key], test_result.metrics[key])],
        !.analysis_metrics = IF ev.include_analysis_metrics
                             THEN append_analysis_metrics(@, analysis_scores, interpretation_eval)
                             ELSE @,
        !.outcomes = Append(@, "completed")]

\* what process_query does in one case: it returns a result, or it raises (None)
PipelineOutcomes == {None} \cup {Some(result) : result \in EvalResults}

\* a pipeline that is not called again after a call with the mode raised
first_call_only(analysis_mode, first_call, second_call) == first_call

\* the result of the case's pipeline calls: with an analysis_mode the call
\* that raised is repeated without the mode
pipeline_result(analysis_mode, first_call, second_call) ==
    IF analysis_mode # None /\ first_call = None THEN second_call ELSE first_call

\* the call returned the dict of process_query's except branch
reported_error(call) == IF call = None THEN FALSE ELSE "error" \in DOMAIN call[1]

\* the calls of process_query in one case, in order: whether the mode was
\* passed, whether the call raised, whether it returned an error response,
\* and the time it took
pipeline_calls(analysis_mode, first_call, second_call, first_time, second_time) ==
    IF analysis_mode # None /\ first_call = None
    THEN <<[with_mode |-> TRUE, raised |-> TRUE, error |-> FALSE, seconds |-> first_time],
           [with_mode |-> FALSE, raised |-> second_call = None,
            error |-> reported_error(second_call), seconds |-> second_time]>>
    ELSE <<[with_mode |-> analysis_mode # None, raised |-> first_call = None,
            error |-> reported_error(first_call), seconds |-> first_time]>>

\* end_time - start_time: start_time is taken before the first call and
\* end_time after the last one
elapsed(calls) == Sum([n \in 1..Len(calls) |-> calls[n].seconds])

\* RAGMetrics.response_time
response_time(start_time, end_time) == end_time - start_time

\* an evaluator that drops the cases whose pipeline reported an error
skip_error_responses(ev, test_case, result, relevance, hallucination, seconds) ==
    IF result = None THEN case_skipped(ev)
    ELSE IF "error" \in DOMAIN result[1] THEN case_skipped(ev)
    ELSE case_completed(ev,
                        test_result_of(test_case, result[1], relevance, hallucination,
                                       response_time(0, seconds)),
                        answer_quality[result[1]],
                        interpretation_evaluation[test_case][result[1]])

\* the loop body on the result of the calls
case_outcome(ev, test_case, result, relevance, hallucination, seconds) ==
    IF result = None THEN case_skipped(ev)
    ELSE case_completed(ev,
                        test_result_of(test_case, result[1], relevance, hallucination,
                                       response_time(0, seconds)),
                        answer_quality[result[1]],
                        interpretation_evaluation[test_case][result[1]])

\* one pass of the loop body over test_case
evaluate_case(ev, test_case, result, relevance, hallucination, calls) ==
    [case_outcome(ev, test_case, result, relevance, hallucination, elapsed(calls))
        EXCEPT !.calls = calls]

\* RAGEvaluator.run_evaluation is called
RunEvaluation(eval_data, top_k, include_analysis_metrics, analysis_mode) ==
    /\ request = None
    /\ evaluation = None
    /\ evaluation' = Some(evaluation_start(eval_data, top_k, include_analysis_metrics,
                                           analysis_mode))
    /\ UNCHANGED <<analyses, llm, full_evaluation, pipeline_vars, points, call_vars>>

\* the body of the loop for the next test case of eval_data
EvaluateCase(first_call, second_call, relevance, hallucination, first_time, second_time) ==
    /\ evaluation # None
    /\ IF evaluation = None THEN FALSE
       ELSE /\ evaluation[1].report = None
            /\ Len(evaluation[1].outcomes) < Len(evaluation[1].eval_data)
            /\ evaluation' =
                  Some(evaluate_case(evaluation[1],
                                     evaluation[1].eval_data[Len(evaluation[1].outcomes) + 1],
                                     pipeline_result(evaluation[1].analysis_mode,
                                                     first_call, second_call),
                                     relevance, hallucination,
                                     pipeline_calls(evaluation[1].analysis_mode, first_call,
                                                    second_call, first_time, second_time)))
    /\ UNCHANGED <<analyses, llm, full_evaluation, pipeline_vars, points, call_vars>>

\* the loop is over: the averages are taken and the report is built
FinishEvaluation ==
    /\ evaluation # None
    /\ IF evaluation = None THEN FALSE
       ELSE /\ evaluation[1].report = None
            /\ Len(evaluation[1].outcomes) = Len(evaluation[1].eval_data)
            /\ evaluation' = Some([evaluation[1] EXCEPT !.report = Some(evaluation_report(evaluation[1]))])
    /\ UNCHANGED <<analyses, llm, full_evaluation, pipeline_vars, points, call_vars>>

\* run_evaluation returns the report to its caller
ReturnEvaluation ==
    /\ evaluation # None
    /\ IF evaluation = None THEN FALSE ELSE evaluation[1].report # None
    /\ evaluation' = None
    /\ UNCHANGED <<analyses, llm, full_evaluation, pipeline_vars, points, call_vars>>

(***************************************************************************)
(* SpecEvaluation: runs of run_evaluation over every dataset of up to      *)
(* MaxCases cases, with every outcome of the pipeline in every case.       *)
(***************************************************************************)
EvaluationModes == {None, Some("comprehensive")}

NextEvaluation ==
    \/ \E eval_data \in EvalDatasets, include_analysis_metrics \in BOOLEAN,
          analysis_mode \in EvaluationModes :
          RunEvaluation(eval_data, MaxTopK, include_analysis_metrics, analysis_mode)
    \/ \E first_call \in PipelineOutcomes, second_call \in PipelineOutcomes,
          relevance \in MetricLevels, hallucination \in MetricLevels,
          first_time \in ResponseTimes, second_time \in ResponseTimes :
          EvaluateCase(first_call, second_call, relevance, hallucination, first_time,
                       second_time)
    \/ FinishEvaluation
    \/ ReturnEvaluation

SpecEvaluation == InitMetrics /\ [][NextEvaluation]_vars

(***************************************************************************)
(* LLMClient.  llm.pipeline and llm.client tell whether __init__ could set *)
(* the local model and the API client.  A call of the backend either       *)
(* returns text or raises; generate_response returns Some(text), or None   *)
(* if an exception leaves it.                                              *)
(***************************************************************************)
\* str.strip()
RECURSIVE StripLeft(_)
StripLeft(s) == IF s # "" /\ IsSpace(CharAt(s, 1)) THEN StripLeft(SubSeq(s, 2, Len(s))) ELSE s

RECURSIVE StripRight(_)
StripRight(s) ==
    IF s # "" /\ IsSpace(CharAt(s, Len(s))) THEN StripRight(SubSeq(s, 1, Len(s) - 1)) ELSE s

Strip(s) == StripRight(StripLeft(s))

\* str.startswith
StartsWith(s, prefix) == Len(s) >= Len(prefix) /\ SubSeq(s, 1, Len(prefix)) = prefix

\* LLMClient._generate_mock
generate_mock(prompt) ==
    "Mock response to: " \o SubSeq(prompt, 1, Min(50, Len(prompt)))
        \o "... (Install transformers for local model or set API key for DIAL)"

\* _generate_local after the pipeline returned generated_text
local_text(prompt, text) ==
    Strip(IF StartsWith(text, prompt) THEN SubSeq(text, Len(prompt) + 1, Len(text)) ELSE text)

\* a _generate_local whose except clause raises again
generate_local_reraising(prompt, backend) ==
    IF backend.raises THEN None ELSE Some(local_text(prompt, backend.text))

\* LLMClient._generate_local
generate_local(prompt, backend) ==
    IF backend.raises THEN Some(generate_mock(prompt)) ELSE Some(local_text(prompt, backend.text))

\* LLMClient._generate_api
generate_api(prompt, backend) ==
    IF backend.raises THEN Some(generate_mock(prompt)) ELSE Some(Strip(backend.text))

\* LLMClient.generate_response
generate_response(client, prompt, backend) ==
    IF client.use_local /\ client.pipeline THEN generate_local(prompt, backend)
    ELSE IF ~client.use_local /\ client.client THEN generate_api(prompt, backend)
    ELSE Some(generate_mock(prompt))

LLMPrompts ==
    {"", "Hello, are you working?", "What did Roosevelt say about fear?",
     "Answer from the context only. Q1 - Quote: Knowledge is power. Question: Who said it?"}

\* what the backend does with a prompt: it raises, or it returns the text
\* (for the local pipeline generated_text, "" when the key is absent; for
\* the API the message content, "" when it is None)
backend_outcomes(prompt) ==
    {[raises |-> TRUE, text |-> ""],
     [raises |-> FALSE, text |-> ""],
     [raises |-> FALSE, text |-> prompt \o " Francis Bacon said it. "],
     [raises |-> FALSE, text |-> "\nMock response to: nothing "]}

\* the clients __init__ can build
LLMClients ==
    {[use_local |-> TRUE, pipeline |-> TRUE, client |-> FALSE],
     [use_local |-> TRUE, pipeline |-> FALSE, client |-> FALSE],
     [use_local |-> FALSE, pipeline |-> FALSE, client |-> TRUE],
     [use_local |-> FALSE, pipeline |-> FALSE, client |-> FALSE]}

\* LLMClient.__init__: _setup_local_model or _setup_api_client sets the
\* backend if loaded, and leaves it None otherwise
LLMClientInit(use_local, loaded) ==
    /\ request = None
    /\ evaluation = None
    /\ llm' = [use_local |-> use_local, pipeline |-> use_local /\ loaded,
               client |-> ~use_local /\ loaded]
    /\ UNCHANGED <<evaluation, analyses, full_evaluation, pipeline_vars, points, call_vars>>

\* the result of a call and who raised out of it
Returned(result) ==
    /\ response' = result
    /\ raised' = IF result = None THEN "llm" ELSE "nobody"

\* LLMClient.generate_response
GenerateResponse(prompt, deterministic, backend) ==
    /\ request = None
    /\ request' = Some([prompt |-> prompt, deterministic |-> deterministic, backend |-> backend])
    /\ Returned(generate_response(llm, prompt, backend))
    /\ UNCHANGED <<client_vars, pipeline_vars, points, llm_prompts>>

(***************************************************************************)
(* SpecLLM: every client __init__ can build, and every behaviour of its    *)
(* backend.                                                                *)
(***************************************************************************)
NextLLM ==
    \/ \E use_local \in BOOLEAN, loaded \in BOOLEAN : LLMClientInit(use_local, loaded)
    \/ \E prompt \in LLMPrompts, deterministic \in BOOLEAN :
          \E backend \in backend_outcomes(prompt) : GenerateResponse(prompt, deterministic, backend)
    \/ Return

SpecLLM == InitMetrics /\ [][NextLLM]_vars

(***************************************************************************)
(* The two rankers on a keyword list and on the list with one more keyword *)
(* that the document holds.  SpecKeywordBoost scores every document for    *)
(* every list of up to MaxKeywords keywords and every keyword added.       *)
(***************************************************************************)
KeywordPool == {"roosevelt", "fear", "knowledge", "power", "wisdom"}

KeywordLists ==
    {keywords \in UNION {[1..n -> KeywordPool] : n \in 0..MaxKeywords} :
        \A i, j \in 1..Len(keywords) : i # j => keywords[i] # keywords[j]}

Intents ==
    {[interpretation |-> i, historical |-> h, comparison |-> FALSE, type |-> intent_type(i, h, FALSE)] :
        i \in BOOLEAN, h \in BOOLEAN}

\* the score _apply_enhanced_boosting gives hit for the keywords
pipeline_boost(hit, keywords, needs_analysis) ==
    score_with_hits(build_search_payload(hit, TRUE),
                    count_matches(keywords, boost_blob(blob_fields(build_search_payload(hit, TRUE)))),
                    needs_analysis)

\* the final_score _calculate_document_score gives hit for the keywords
enhanced_final_score(hit, keywords, intent) ==
    final_score_with(hit.payload, hit.score,
                     sum_keyword_weights(Range(keywords), lower_text(text_fields(hit.payload))),
                     intent)

\* RAGPipeline._apply_enhanced_boosting scores hit for keywords and for
\* keywords + [keyword]
BoostWithOneMore(hit, keywords, keyword, needs_analysis) ==
    /\ request = None
    /\ keyword \notin Range(keywords)
    /\ request' = Some([ranker |-> "RAGPipeline", hit |-> hit, keywords |-> keywords,
                        keyword |-> keyword, needs_analysis |-> needs_analysis])
    /\ response' = Some([score |-> pipeline_boost(hit, keywords, needs_analysis),
                         score_with_one_more |->
                             pipeline_boost(hit, Append(keywords, keyword), needs_analysis)])
    /\ UNCHANGED <<client_vars, pipeline_vars, points, raised, llm_prompts>>

\* EnhancedRAG._calculate_document_score scores hit for keywords and for
\* keywords + [keyword]
ScoreWithOneMore(hit, keywords, keyword, intent) ==
    /\ request = None
    /\ keyword \notin Range(keywords)
    /\ request' = Some([ranker |-> "EnhancedRAG", hit |-> hit, keywords |-> keywords,
                        keyword |-> keyword, intent |-> intent])
    /\ response' = Some([score |-> enhanced_final_score(hit, keywords, intent),
                         score_with_one_more |->
                             enhanced_final_score(hit, Append(keywords, keyword), intent)])
    /\ UNCHANGED <<client_vars, pipeline_vars, points, raised, llm_prompts>>

BoostedHits == [payload : {RooseveltQuote, BaconQuote, NoAuthorPayload}, score : ScoreLevels]

NextKeywordBoost ==
    \/ \E hit \in BoostedHits, keywords \in KeywordLists, keyword \in KeywordPool,
          needs_analysis \in BOOLEAN :
          BoostWithOneMore(hit, keywords, keyword, needs_analysis)
    \/ \E hit \in BoostedHits, keywords \in KeywordLists, keyword \in KeywordPool,
          intent \in Intents :
          ScoreWithOneMore(hit, keywords, keyword, intent)
    \/ Return

SpecKeywordBoost == InitMetrics /\ [][NextKeywordBoost]_vars

(***************************************************************************)
(* SpecAnalysis: calls of EnhancedRAG._extract_keywords_and_intent, in any *)
(* order, between uploads to the collection.  analyses keeps the question  *)
(* and the result of every call.                                           *)
(***************************************************************************)
\* questions that name an author or a topic by its canonical name, by an
\* alias or a synonym, or not at all
AnalysisQueries ==
    {"What did Roosevelt say about fear?",
     "What did FDR say about being afraid?",
     "Quotes by Eleanor on bravery",
     "Tell me of wisdom"}

\* EnhancedRAG._extract_keywords_and_intent is called and returns
ExtractKeywordsAndIntent(query) ==
    /\ request = None
    /\ Len(analyses) < MaxAnalyses
    /\ request' = Some([query |-> query])
    /\ response' = Some(extract_keywords_and_intent(query))
    /\ analyses' = Append(analyses, <<query, extract_keywords_and_intent(query)>>)
    /\ UNCHANGED <<evaluation, llm, full_evaluation, pipeline_vars, points, raised, llm_prompts>>

NextAnalysis ==
    \/ \E pt \in EnhancedPoints : UpsertScoredPoint(pt, 1)
    \/ \E query \in AnalysisQueries : ExtractKeywordsAndIntent(query)
    \/ Return

SpecAnalysis == InitEnhancedRAG /\ [][NextAnalysis]_vars

(***************************************************************************)
(* RAGPipeline.search_quotes, the entry point that returns the documents   *)
(* without asking the LLM.                                                 *)
(***************************************************************************)
\* (doc.get("quote", "")[:100]).strip()
quote_key(doc) == Strip(SubSeq(Get(doc, "quote", ""), 1, Min(100, Len(Get(doc, "quote", "")))))

add_unique_by_quote(docs, doc) ==
    IF quote_key(doc) # "" /\ quote_key(doc) \notin {quote_key(docs[i]) : i \in 1..Len(docs)}
    THEN Append(docs, doc)
    ELSE docs

RECURSIVE unique_docs_by_quote(_)
unique_docs_by_quote(hits) ==
    IF hits = <<>> THEN <<>>
    ELSE add_unique_by_quote(unique_docs_by_quote(SubSeq(hits, 1, Len(hits) - 1)),
                             build_search_payload(hits[Len(hits)], TRUE))

\* search_quotes once effective_top_k is selected
search_with_top_k(enhanced, pts, question, mode, effective_top_k) ==
    Take(rank_docs(enhanced, unique_docs_by_quote(qdrant_search(pts, effective_top_k * 2)),
                   question, mode),
         effective_top_k)

\* RAGPipeline.search_quotes; an exception of the embedder or the store gives []
search_quotes(enhanced, default_mode, pts, question, top_k, raiser) ==
    IF raiser \in {"embedder", "store"} THEN <<>>
    ELSE search_with_top_k(enhanced, pts, question, default_mode,
                           select_effective_top_k(enhanced, question, top_k, default_mode))

\* RAGPipeline.search_quotes is called and returns
SearchQuotes(question, top_k, raiser) ==
    /\ request = None
    /\ request' = Some([entry |-> "search_quotes", question |-> question, top_k |-> top_k])
    /\ response' = Some([docs |-> search_quotes(use_enhanced, default_analysis_mode, points,
                                                question, top_k, raiser)])
    /\ raised' = raiser
    /\ llm_prompts' = <<>>
    /\ UNCHANGED <<client_vars, pipeline_vars, points>>

(***************************************************************************)
(* SpecSearch: search_quotes and process_query over collections that hold  *)
(* payloads without id, without quote or without author.                   *)
(***************************************************************************)
NextSearch ==
    \/ \E pt \in MalformedPoints : UpsertPoint(pt, MaxPoints)
    \/ \E question \in Questions, top_k \in 1..MaxTopK, raiser \in {"nobody", "embedder", "store"} :
          SearchQuotes(question, top_k, raiser)
    \/ \E question \in Questions, top_k \in 1..MaxTopK, llm_answer \in LLMAnswers :
          ProcessQuery(question, top_k, None, TRUE, "nobody", llm_answer)
    \/ Return

SpecSearch == Init /\ [][NextSearch]_vars


(***************************************************************************)
(* The self-test of simple_enhancement.py: _extract_keywords_and_intent is *)
(* called on the test queries of the __main__ block, each listed with the  *)
(* intent the test expects, and on a question with no cue at all.          *)
(***************************************************************************)
\* test_queries, as pairs <<query, expected intent>>
test_queries ==
    {<<"What does Roosevelt's 'fear itself' quote mean?", "interpretation">>,
     <<"What was the historical context of MLK's dream speech?", "historical">>,
     <<"What quotes are there about perseverance?", "retrieval">>,
     <<"Compare quotes about leadership and courage", "comparison">>}

SelfTestQueries == {t[1] : t \in test_queries} \cup {"Tell me of wisdom"}

NextSelfTest ==
    \/ \E query \in SelfTestQueries : ExtractKeywordsAndIntent(query)
    \/ Return

SpecSelfTest == InitEnhancedRAG /\ [][NextSelfTest]_vars


(***************************************************************************)
(* SpecTies: an enhanced RAGPipeline and EnhancedRAG over one collection   *)
(* of distinct quotes whose similarities make final scores tie: between    *)
(* documents without analysis fields, and between a document with analysis *)
(* fields and one without them.                                            *)
(***************************************************************************)
TiePayloads == {NoAuthorPayload, SocratesQuote, BaconQuote}

\* similarities: 0.5 and 0.75 as RAGPipeline reads them, 0.25 and 0.375 as
\* EnhancedRAG reads them
TieLevels == {50, 75}

TiePoints == [payload : TiePayloads, score : TieLevels]

TieQuestions ==
    {"Explain the historical context of courage",
     "List some quotes about perseverance",
     "Tell me of wisdom"}

InitTies == Construct([use_enhanced |-> TRUE, default_analysis_mode |-> "standard"])

NextTies ==
    \/ \E pt \in TiePoints :
          pt.payload.id \notin QuoteIds(points) /\ UpsertScoredPoint(pt, MaxTiePoints)
    \/ \E question \in TieQuestions, top_k \in 1..MaxTopK, analysis_mode \in AnalysisModeArgs,
          llm_answer \in LLMAnswers :
          ProcessQuery(question, top_k, analysis_mode, TRUE, "nobody", llm_answer)
    \/ \E question \in TieQuestions, top_k \in 1..MaxTopK,
          analysis_mode \in EnhancedAnalysisModes, llm_answer \in LLMAnswers :
          EnhancedProcessQuery(question, top_k, analysis_mode, "nobody", llm_answer)
    \/ Return

SpecTies == InitTies /\ [][NextTies]_vars


(***************************************************************************)
(* The prompt formatters of LLMClient.  A text is the sequence of its      *)
(* lines; a prompt is the text the formatter returns.                      *)
(***************************************************************************)
\* str(n) for n >= 0
RECURSIVE Decimal(_)
Decimal(n) ==
    IF n < 10 THEN CharAt(Digits, n + 1)
    ELSE Decimal(n \div 10) \o CharAt(Digits, (n % 10) + 1)

\* sep.join(seq)
RECURSIVE JoinWith(_, _)
JoinWith(seq, sep) ==
    IF seq = <<>> THEN ""
    ELSE IF Len(seq) = 1 THEN seq[1]
    ELSE seq[1] \o sep \o JoinWith(Tail(seq), sep)

\* the text a + b: the last line of a goes on in the first line of b
Glue(a, b) == SubSeq(a, 1, Len(a) - 1) \o <<a[Len(a)] \o b[1]>> \o Tail(b)

\* separator.join(texts), the separator being a text
RECURSIVE JoinTexts(_, _)
JoinTexts(texts, separator) ==
    IF texts = <<>> THEN <<"">>
    ELSE IF Len(texts) = 1 THEN texts[1]
    ELSE Glue(texts[1], Glue(separator, JoinTexts(Tail(texts), separator)))

\* the block format_rag_prompt makes of the document at index i (from 0)
rag_block(i, doc) ==
    <<"Q" \o Decimal(i + 1) \o " - Quote: " \o Get(doc, "quote", ""),
      "Author: " \o Get(doc, "author", "Unknown"),
      "Context: " \o Get(doc, "context", ""),
      "Source: " \o Get(doc, "source", "")>>

rag_blocks(context_docs) == [n \in 1..Len(context_docs) |-> rag_block(n - 1, context_docs[n])]

\* LLMClient.format_rag_prompt
format_rag_prompt(question, context_docs) ==
    <<"You are a historical quotes expert. Answer the user's question based ONLY on the provided context.",
      "",
      "Context information (each quote has an ID like Q1, Q2, etc):">>
    \o JoinTexts(rag_blocks(context_docs), <<"", "", "">>)
    \o <<"",
      "User Question: " \o question,
      "",
      "Instructions:",
      "1. Answer based ONLY on the provided context",
      "2. If the answer is not in the context, say \"I cannot find that information in my knowledge base\"",
      "3. When you reference a quote, cite it using its ID in square brackets, e.g. [Q1], [Q2]",
      "4. Be concise and accurate",
      "5. Do NOT invent new quotes or sources that are not in the context",
      "",
      "Answer:">>

\* the lines of an entry that are there for a non-empty analysis field
optional_line(doc, field, title) ==
    IF TruthyStr(Get(doc, field, "")) THEN <<"  " \o title \o ": " \o Get(doc, field, "")>> ELSE <<>>

\* the entry format_rag_prompt_with_analysis makes of the document at index i
analysis_entry(i, doc) ==
    <<"QUOTE " \o Decimal(i + 1) \o ":",
      "  Text: \"" \o Get(doc, "quote", "") \o "\"",
      "  Author: " \o Get(doc, "author", "Unknown"),
      "  Era/Time Period: " \o Get(doc, "era", "Unknown"),
      "  Historical Context: " \o Get(doc, "context", "Not specified"),
      "  Source/Document: " \o Get(doc, "source", "Not specified"),
      "  Topics/Themes: " \o Get(doc, "topic", "Not specified"),
      "  Tags/Keywords: " \o (IF TruthyList(Get(doc, "tags", <<>>))
                                THEN JoinWith(Get(doc, "tags", <<>>), ", ")
                                ELSE "Not specified")>>
    \o optional_line(doc, "interpretation", "Interpretation")
    \o optional_line(doc, "historical_significance", "Historical Significance")
    \o optional_line(doc, "themes", "Key Themes")

analysis_entries(context_docs) ==
    [n \in 1..Len(context_docs) |-> analysis_entry(n - 1, context_docs[n])]

\* "-" * 60
rule == "------------------------------------------------------------"

\* context_text of format_rag_prompt_with_analysis: the entries are joined
\* by one newline, the first follows the rule on its line
analysis_context_text(context_docs) ==
    Glue(<<"", "", rule>>,
         Glue(JoinTexts(analysis_entries(context_docs), <<"", "">>), <<"", rule>>))

\* LLMClient.format_rag_prompt_with_analysis
format_rag_prompt_with_analysis(question, context_docs) ==
    <<"You are a historian, literary analyst, and educator specializing in historical quotes. ",
      "Your task is to provide COMPREHENSIVE ANALYSIS that includes both factual answers and deeper understanding.",
      "">>
    \o Glue(<<"AVAILABLE INFORMATION:">>, analysis_context_text(context_docs))
    \o <<"",
      "USER QUESTION: " \o question,
      "",
      "ANALYSIS FRAMEWORK - Your response should include these elements:",
      "",
      "1. DIRECT ANSWER:",
      "   - Provide clear, factual answer to the question",
      "   - Reference specific quotes and authors",
      "   - Include relevant dates/eras if available",
      "",
      "2. QUOTE INTERPRETATION:",
      "   - Explain what each relevant quote MEANS",
      "   - Break down key phrases and their significance",
      "   - Connect to the author's broader philosophy or work",
      "",
      "3. HISTORICAL CONTEXT:",
      "   - Describe the historical circumstances when the quote was said",
      "   - Explain relevant events, movements, or conditions",
      "   - Discuss why this quote was significant AT THAT TIME",
      "",
      "4. SIGNIFICANCE & LEGACY:",
      "   - Explain why this quote remains important today",
      "   - Discuss its impact on history, culture, or thought",
      "   - Connect to modern relevance or applications",
      "",
      "5. THEMATIC ANALYSIS:",
      "   - Identify key themes or ideas in the quote(s)",
      "   - Connect to broader historical or philosophical concepts",
      "   - Compare/contrast with other similar quotes if relevant",
      "",
      "GUIDELINES:",
      "- Base ALL analysis on the provided information",
      "- If information is missing, acknowledge the gap but provide best analysis possible",
      "- Use clear, educational language suitable for students and general audience",
      "- Structure your response with clear sections or paragraphs",
      "- Aim for depth and insight, not just surface-level facts",
      "- Do not repeat the context or the instructions in your output",
      "",
      "BEGIN YOUR COMPREHENSIVE ANALYSIS:",
      "">>

simple_entry(doc) == <<"\"" \o Get(doc, "quote", "") \o "\" - " \o Get(doc, "author", "Unknown")>>

simple_entries(context_docs) == [n \in 1..Len(context_docs) |-> simple_entry(context_docs[n])]

\* LLMClient.format_simple_prompt
format_simple_prompt(question, context_docs) ==
    Glue(<<"Based on these quotes: ">>, JoinTexts(simple_entries(context_docs), <<"", "", "">>))
    \o <<"", "Question: " \o question, "Answer: ">>

\* the formatter each mode of process_query uses
format_prompt(method, question, context_docs) ==
    IF method = "format_rag_prompt_with_analysis"
        THEN format_rag_prompt_with_analysis(question, context_docs)
    ELSE IF method = "format_simple_prompt" THEN format_simple_prompt(question, context_docs)
    ELSE format_rag_prompt(question, context_docs)

(***************************************************************************)
(* SpecPrompts: each formatter is called on every list of up to            *)
(* MaxPromptDocs documents and returns its prompt.                         *)
(***************************************************************************)
PromptMethods == {"format_simple_prompt", "format_rag_prompt", "format_rag_prompt_with_analysis"}

\* documents with the keys _build_search_payload copies from a payload; the
\* keys era, context and source are absent, so the formatters take their
\* defaults
PromptDocs == {payload_doc(p, 90, TRUE) : p \in {RooseveltQuote, BaconQuote, NoAuthorPayload}}

PromptDocLists == UNION {[1..n -> PromptDocs] : n \in 0..MaxPromptDocs}

PromptQuestions == {"What did Roosevelt say about fear?", "Tell me of wisdom"}

\* a formatter is called and returns
FormatPrompt(method, question, context_docs) ==
    /\ request = None
    /\ request' = Some([formatter |-> method, question |-> question,
                        context_docs |-> context_docs])
    /\ response' = Some([prompt |-> format_prompt(method, question, context_docs)])
    /\ UNCHANGED <<client_vars, pipeline_vars, points, raised, llm_prompts>>

NextPrompts ==
    \/ \E method \in PromptMethods, question \in PromptQuestions,
          context_docs \in PromptDocLists :
          FormatPrompt(method, question, context_docs)
    \/ Return

SpecPrompts == InitMetrics /\ [][NextPrompts]_vars


(***************************************************************************)
(* SpecPlain: the pipelines built without use_enhanced, over collections   *)
(* of up to MaxPlainPoints points that repeat ids and hold payloads        *)
(* without id, asked questions that an enhanced pipeline would cut to one  *)
(* document or widen.                                                      *)
(***************************************************************************)
PlainPipelines == {pipeline \in Pipelines : ~pipeline.use_enhanced}

PlainPoints == [payload : {RooseveltQuote, BaconQuote, NoIdQuote}, score : ScoreLevels]

PlainQuestions ==
    {"What did Roosevelt say about fear?",
     "What does Roosevelt's 'fear itself' quote mean?"}

PlainModes == {None, Some("comprehensive"), Some("comparative")}

InitPlain == \E pipeline \in PlainPipelines : Construct(pipeline)

NextPlain ==
    \/ \E pt \in PlainPoints : UpsertPoint(pt, MaxPlainPoints)
    \/ \E question \in PlainQuestions, top_k \in 1..MaxTopK, analysis_mode \in PlainModes,
          raiser \in {"nobody", "store"}, llm_answer \in LLMAnswers :
          ProcessQuery(question, top_k, analysis_mode, TRUE, raiser, llm_answer)
    \/ Return

SpecPlain == InitPlain /\ [][NextPlain]_vars


(***************************************************************************)
(* scripts/run_full_evaluation.py.  full_evaluation holds the files on     *)
(* disk, the steps main has started (with the return code of the script    *)
(* and what must_exist said of its artifact), whether a script is running, *)
(* what main printed, and whether main has returned.                       *)
(***************************************************************************)
StepOrder == <<"baseline", "enhanced", "report">>

script_path ==
    [baseline |-> "scripts/run_baseline.py",
     enhanced |-> "scripts/run_enhanced.py",
     report |-> "scripts/generate_report.py"]

artifact_path ==
    [baseline |-> "evaluation/results/baseline.json",
     enhanced |-> "evaluation/results/enhanced_simple.json",
     report |-> "docs/enhancement_report.md"]

failure_message ==
    [baseline |-> "Baseline step failed.",
     enhanced |-> "Enhanced step failed.",
     report |-> "Report generation step failed."]

ScriptPaths == {script_path[step] : step \in DOMAIN script_path}

ArtifactPaths == {artifact_path[step] : step \in DOMAIN artifact_path}

\* the return codes of a script: success, an uncaught exception, sys.exit(2)
ReturnCodes == {0, 1, 2}

\* must_exist
must_exist(files, path_str) == path_str \in files

\* main up to the first run_step: a missing script ends it, else the two
\* directories are made
main_start(files) ==
    IF ScriptPaths \subseteq files
    THEN [files |-> files \cup {"evaluation/results", "docs"},
          steps |-> <<>>, running |-> FALSE, printed |-> <<>>, returned |-> FALSE]
    ELSE [files |-> files,
          steps |-> <<>>, running |-> FALSE, printed |-> <<"Missing script">>, returned |-> TRUE]

\* run_step starts the script of the next step
step_started(run) ==
    [run EXCEPT
        !.steps = Append(@, [step |-> StepOrder[Len(run.steps) + 1], rc |-> None, found |-> None]),
        !.running = TRUE]

\* what main prints after a step that returned 0 and left its artifact
found_messages(step) ==
    IF step = StepOrder[Len(StepOrder)]
    THEN <<"Found: " \o artifact_path[step], "FULL EVALUATION PIPELINE COMPLETE">>
    ELSE <<"Found: " \o artifact_path[step]>>

\* a main that goes on to the next step whatever the script returned
step_checked_without_rc(run, step, rc, files) ==
    [run EXCEPT
        !.files = files,
        !.running = FALSE,
        !.steps[Len(run.steps)] = [step |-> step, rc |-> Some(rc),
                                   found |-> Some(must_exist(files, artifact_path[step]))],
        !.printed = IF must_exist(files, artifact_path[step])
                    THEN @ \o found_messages(step)
                    ELSE Append(@, "not created: " \o artifact_path[step]),
        !.returned = \/ ~must_exist(files, artifact_path[step])
                     \/ step = StepOrder[Len(StepOrder)]]

\* the script returned rc and left files on disk: main checks rc, then the
\* artifact, and goes on to the next step or returns
step_checked(run, step, rc, files) ==
    IF rc # 0
    THEN [run EXCEPT
            !.files = files,
            !.running = FALSE,
            !.steps[Len(run.steps)] = [step |-> step, rc |-> Some(rc), found |-> None],
            !.printed = Append(@, failure_message[step]),
            !.returned = TRUE]
    ELSE [run EXCEPT
            !.files = files,
            !.running = FALSE,
            !.steps[Len(run.steps)] = [step |-> step, rc |-> Some(rc),
                                       found |-> Some(must_exist(files, artifact_path[step]))],
            !.printed = IF must_exist(files, artifact_path[step])
                        THEN @ \o found_messages(step)
                        ELSE Append(@, "not created: " \o artifact_path[step]),
            !.returned = \/ ~must_exist(files, artifact_path[step])
                         \/ step = StepOrder[Len(StepOrder)]]

\* run_full_evaluation.main is called with the files in `files` on disk
Main(files) ==
    /\ full_evaluation = None
    /\ full_evaluation' = Some(main_start(files))
    /\ UNCHANGED <<evaluation, analyses, llm, pipeline_vars, points, call_vars>>

\* run_step: subprocess.run starts the script of the next step
RunStep ==
    /\ full_evaluation # None
    /\ IF full_evaluation = None THEN FALSE
       ELSE /\ ~full_evaluation[1].returned
            /\ ~full_evaluation[1].running
            /\ full_evaluation' = Some(step_started(full_evaluation[1]))
    /\ UNCHANGED <<evaluation, analyses, llm, pipeline_vars, points, call_vars>>

\* the script exits with rc, having written its artifact or not; main checks
\* the return code and the artifact
StepReturns(rc, wrote) ==
    /\ full_evaluation # None
    /\ IF full_evaluation = None THEN FALSE
       ELSE /\ full_evaluation[1].running
            /\ full_evaluation' =
                  Some(step_checked(
                          full_evaluation[1],
                          StepOrder[Len(full_evaluation[1].steps)],
                          rc,
                          IF wrote
                          THEN full_evaluation[1].files
                                  \cup {artifact_path[StepOrder[Len(full_evaluation[1].steps)]]}
                          ELSE full_evaluation[1].files))
    /\ UNCHANGED <<evaluation, analyses, llm, pipeline_vars, points, call_vars>>

\* main returns
MainReturns ==
    /\ full_evaluation # None
    /\ IF full_evaluation = None THEN FALSE ELSE full_evaluation[1].returned
    /\ full_evaluation' = None
    /\ UNCHANGED <<evaluation, analyses, llm, pipeline_vars, points, call_vars>>

(***************************************************************************)
(* SpecFullEvaluation: main over every set of scripts and artifacts that   *)
(* earlier runs left on disk, with every return code of every script.      *)
(***************************************************************************)
NextFullEvaluation ==
    \/ \E files \in SUBSET (ScriptPaths \cup ArtifactPaths) : Main(files)
    \/ RunStep
    \/ \E rc \in ReturnCodes, wrote \in BOOLEAN : StepReturns(rc, wrote)
    \/ MainReturns

SpecFullEvaluation == InitMetrics /\ [][NextFullEvaluation]_vars


(***************************************************************************)
(* scripts/generate_report.py.  Metric values are in hundredths; a percent *)
(* change is the fraction <<numerator, denominator>> of                    *)
(* (enhanced - baseline) * 100 over baseline.                              *)
(***************************************************************************)
\* the values json.load may give for a metric
JsonNumber(n) == [type |-> "number", number |-> n, text |-> ""]

JsonString(s) == [type |-> "string", number |-> 0, text |-> s]

JsonNull == [type |-> "null", number |-> 0, text |-> ""]

\* float(text) of the strings of the model, in hundredths
float_of_text == [text \in {"0.65"} |-> 65]

\* float(v): None if it raises
to_float(v) ==
    IF v.type = "number" THEN Some(v.number)
    ELSE IF v.type = "string" /\ v.text \in DOMAIN float_of_text THEN Some(float_of_text[v.text])
    ELSE None

\* _get_avg_metrics: the entries of average_metrics that float() accepts
get_avg_metrics(obj) ==
    [k \in {key \in DOMAIN Get(obj, "average_metrics", <<>>) :
                to_float(obj.average_metrics[key]) # None} |->
        to_float(obj.average_metrics[k])[1]]

\* a change computed although the baseline is 0, counted as no improvement
pct_change_from_zero(baseline, enhanced) ==
    IF baseline = None \/ enhanced = None THEN None
    ELSE IF baseline[1] = 0 THEN Some(<<(enhanced[1] - baseline[1]) * 100, 1>>)
    ELSE Some(<<(enhanced[1] - baseline[1]) * 100, baseline[1]>>)

\* _pct_change
pct_change(baseline, enhanced) ==
    IF baseline = None \/ enhanced = None THEN None
    ELSE IF baseline[1] = 0 THEN None
    ELSE Some(<<(enhanced[1] - baseline[1]) * 100, baseline[1]>>)

\* fraction >= threshold
at_least(fraction, threshold) ==
    IF fraction[2] > 0 THEN fraction[1] >= threshold * fraction[2]
    ELSE fraction[1] <= threshold * fraction[2]

default_threshold_pct == 30

\* the status of the quality gate
gate_status(target_impr, threshold_pct) ==
    IF target_impr = None THEN "FAIL"
    ELSE IF at_least(target_impr[1], threshold_pct) THEN "SUCCESS"
    ELSE "FAIL"

\* build_report on the two loaded artifacts: what the report says of the
\* target metric
build_report(baseline_obj, enhanced_obj, target_metric_key, threshold_pct) ==
    [target_baseline |-> GetOpt(get_avg_metrics(baseline_obj), target_metric_key),
     target_enhanced |-> GetOpt(get_avg_metrics(enhanced_obj), target_metric_key),
     improvement |-> pct_change(GetOpt(get_avg_metrics(baseline_obj), target_metric_key),
                                GetOpt(get_avg_metrics(enhanced_obj), target_metric_key)),
     status |-> gate_status(pct_change(GetOpt(get_avg_metrics(baseline_obj), target_metric_key),
                                       GetOpt(get_avg_metrics(enhanced_obj), target_metric_key)),
                            threshold_pct)]

\* build_report is called on two artifact files, either of which may be
\* missing (None): _load_json raises then, else the report is written
BuildReport(baseline_file, enhanced_file, target_metric_key, threshold_pct) ==
    /\ request = None
    /\ request' = Some([baseline |-> baseline_file, enhanced |-> enhanced_file,
                        target_metric_key |-> target_metric_key,
                        threshold_pct |-> threshold_pct])
    /\ IF baseline_file = None \/ enhanced_file = None
       THEN response' = None /\ raised' = "load_json"
       ELSE /\ response' = Some(build_report(baseline_file[1], enhanced_file[1],
                                             target_metric_key, threshold_pct))
            /\ raised' = "nobody"
    /\ UNCHANGED <<client_vars, pipeline_vars, points, llm_prompts>>

(***************************************************************************)
(* SpecReport: build_report over artifacts with the target metric as a     *)
(* number, a numeric string, null, or absent, and over missing files.      *)
(***************************************************************************)
ReportValues ==
    {JsonNumber(n) : n \in {0, 50, 64, 65, 100}} \cup {JsonString("0.65"), JsonString("n/a"), JsonNull}

ArtifactObjects ==
    {[test_queries |-> 3], [average_metrics |-> <<>>, test_queries |-> 3]}
        \cup {[average_metrics |-> [precision |-> v], test_queries |-> 3] : v \in ReportValues}

ArtifactFiles == {None} \cup {Some(obj) : obj \in ArtifactObjects}

TargetMetrics == {"precision", "recall"}

Thresholds == {0, default_threshold_pct}

NextReport ==
    \/ \E baseline_file \in ArtifactFiles, enhanced_file \in ArtifactFiles,
          target_metric_key \in TargetMetrics, threshold_pct \in Thresholds :
          BuildReport(baseline_file, enhanced_file, target_metric_key, threshold_pct)
    \/ Return

SpecReport == InitMetrics /\ [][NextReport]_vars

(***************************************************************************)
(* Properties of RAGPipeline.process_query.                                *)
(***************************************************************************)
\* a call has returned without taking the except branch
Answered == response # None /\ "error" \notin DOMAIN response[1]

NoRepeatedId(docs) ==
    \A i, j \in 1..Len(docs) : i # j => docs[i].id # docs[j].id

\* the hits of the store for a fetch of limit points
hits_of(limit) == Take(points, limit)

\* C1: the search_results of a non-error response of process_query hold at
\* most used_top_k documents and no two of them have the same id, for every
\* question, top_k, mode and store content, with use_enhanced on and off.
C1_AtMostUsedTopKUniqueIds ==
    Answered =>
        /\ Len(response[1].search_results) <= response[1].used_top_k
        /\ NoRepeatedId(response[1].search_results)

\* two of the hits carry the same payload id
RepeatedHitId(hits) ==
    \E i, j \in 1..Len(hits) :
        /\ i < j
        /\ "id" \in DOMAIN hits[i].payload
        /\ "id" \in DOMAIN hits[j].payload
        /\ hits[i].payload.id = hits[j].payload.id

\* an enhanced pipeline answered from hits that repeat an id, over a
\* collection of more points than used_top_k: the result has used_top_k
\* documents
C1_Witness ==
    /\ Answered
    /\ use_enhanced
    /\ RepeatedHitId(hits_of(2 * response[1].used_top_k))
    /\ Len(points) > response[1].used_top_k
    /\ Len(response[1].search_results) = response[1].used_top_k

\* C2: when the embedder, the vector store or the LLM client raises during
\* process_query, the call still returns a response, and that response has
\* error = true, retrieved_count = 0 and an empty search_results list.
C2_RaiseGivesErrorResponse ==
    (request # None /\ raised # "nobody") =>
        /\ response # None
        /\ "error" \in DOMAIN response[1]
        /\ response[1].error = TRUE
        /\ response[1].retrieved_count = 0
        /\ response[1].search_results = <<>>

\* the LLM client raised after documents had been retrieved
C2_Witness ==
    /\ request # None
    /\ raised = "llm"
    /\ Len(points) >= 1
    /\ QuoteIds(points) # {}
    /\ response # None
    /\ response[1].error = TRUE
    /\ response[1].retrieved_count = 0

SixFields ==
    {"answer", "retrieved_count", "search_results", "analysis_mode", "answer_type",
     "used_top_k"}

\* C3 as stated: every response of process_query, the error response
\* included, carries answer, retrieved_count, search_results, analysis_mode,
\* answer_type and used_top_k.
C3_EveryResponseHasSixFields ==
    response # None => SixFields \subseteq DOMAIN response[1]

\* C3: every non-error response of process_query (standard and comparative
\* path) carries the six fields; the error response carries answer,
\* retrieved_count, search_results and analysis_mode = "error", and neither
\* answer_type nor used_top_k.
C3_FieldsPerPath ==
    response # None =>
        IF "error" \in DOMAIN response[1]
        THEN /\ {"answer", "retrieved_count", "search_results", "analysis_mode"}
                    \subseteq DOMAIN response[1]
             /\ response[1].analysis_mode = "error"
             /\ "answer_type" \notin DOMAIN response[1]
             /\ "used_top_k" \notin DOMAIN response[1]
        ELSE SixFields \subseteq DOMAIN response[1]

\* a response of the comparative path, with its six fields
C3_Witness ==
    /\ Answered
    /\ response[1].answer_type = "comparative_analysis"
    /\ SixFields \subseteq DOMAIN response[1]

\* C4 as stated: a non-error call in comparative mode that retrieved fewer
\* than two documents answers with the insufficient-documents message and
\* sends no prompt to the LLM.
C4_ComparativeNeedsTwoDocuments ==
    (Answered /\ response[1].analysis_mode = "comparative"
              /\ Len(response[1].search_results) < 2) =>
        /\ response[1].answer = "Need at least two quotes for comparative analysis."
        /\ llm_prompts = <<>>

\* the questions the exact/author rule is stated for: "who said", or "what
\* did"/"what was" without "quotes", or a quoted substring without "quotes"
ExactLookupQuestions ==
    {q \in Questions :
        \/ Contains(Lower(q), "who said")
        \/ (Contains(Lower(q), "what did") \/ Contains(Lower(q), "what was"))
              /\ ~Contains(Lower(q), "quotes")
        \/ (Contains(q, "'") \/ Contains(q, "\"")) /\ ~Contains(Lower(q), "quotes")}

\* the questions with "quotes" and one of "about", "are there", "some", "list"
TopicSearchQuestions ==
    {q \in Questions :
        /\ Contains(Lower(q), "quotes")
        /\ \E w \in {"about", "are there", "some", "list"} : Contains(Lower(q), w)}

\* C5 as stated: for an exact/author lookup that is not a topic search,
\* process_query reports used_top_k = 1 and returns at most one document,
\* for every requested top_k and every mode.
C5_ExactLookupUsesOne ==
    (Answered /\ request[1].question \in ExactLookupQuestions \ TopicSearchQuestions) =>
        /\ response[1].used_top_k = 1
        /\ Len(response[1].search_results) <= 1

\* C5: with use_enhanced = True, every non-error response of process_query
\* to an exact/author lookup that is not a topic search reports
\* used_top_k = 1 and holds at most one document, for every requested top_k
\* and every mode; with use_enhanced = False used_top_k is the requested top_k.
C5_EnhancedExactLookupUsesOne ==
    (Answered /\ request[1].question \in ExactLookupQuestions \ TopicSearchQuestions) =>
        IF use_enhanced
        THEN /\ response[1].used_top_k = 1
             /\ Len(response[1].search_results) <= 1
        ELSE response[1].used_top_k = request[1].top_k

\* an enhanced pipeline over two quotes was asked an exact lookup for more
\* than one document and returned one
C5_Witness ==
    /\ Answered
    /\ use_enhanced
    /\ request[1].question \in ExactLookupQuestions \ TopicSearchQuestions
    /\ request[1].top_k >= 2
    /\ Cardinality(QuoteIds(points)) >= 2
    /\ response[1].used_top_k = 1
    /\ Len(response[1].search_results) = 1

\* C6 as stated: no id appears twice in search_results, and the result is
\* shorter than used_top_k only when the collection holds fewer than
\* used_top_k distinct quote ids.
C6_DuplicatesTakeNoSlot ==
    Answered =>
        /\ NoRepeatedId(response[1].search_results)
        /\ Len(response[1].search_results) < response[1].used_top_k
              => Cardinality(QuoteIds(points)) < response[1].used_top_k

\* the collection is the whole corpus: the Roosevelt quote and the nine others
WholeCorpus ==
    /\ Len(points) = CorpusSize
    /\ QuoteIds(points) = {RooseveltQuote.id} \cup {OtherQuotes[n].id : n \in 1..Len(OtherQuotes)}

\* C7 as stated: an enhanced pipeline asked "What did Roosevelt say about
\* fear?" over the Roosevelt quote and nine quotes that match no keyword
\* returns the Roosevelt quote first, whatever rank and score the store
\* gives it.
C7_RooseveltFirst ==
    (Answered /\ use_enhanced /\ WholeCorpus /\ request[1].question = RooseveltQuestion) =>
        /\ response[1].search_results # <<>>
        /\ response[1].search_results[1].id = Some(RooseveltQuote.id)

(***************************************************************************)
(* Properties of EnhancedRAG.process_query.                                *)
(***************************************************************************)
\* the index of the Roosevelt quote in the collection
RooseveltIndex == CHOOSE i \in 1..Len(points) : points[i].payload.id = RooseveltQuote.id

final_score_of(pt) ==
    calculate_document_score(pt.payload, pt.score, RooseveltQuestion).final_score

\* C8: EnhancedRAG.process_query asked "What did Roosevelt say about fear?"
\* over the Roosevelt quote and nine quotes that match no extracted keyword
\* gives the Roosevelt quote a final_score strictly above that of every
\* other quote and returns it first, for every semantic score between -1
\* and 1 and with or without analysis fields on any of the quotes.
C8_EnhancedRooseveltFirst ==
    (Answered /\ WholeCorpus /\ request[1].question = RooseveltQuestion) =>
        /\ \A i \in 1..Len(points) :
              i # RooseveltIndex =>
                  final_score_of(points[RooseveltIndex]) > final_score_of(points[i])
        /\ response[1].search_results # <<>>
        /\ response[1].search_results[1].id = Some(RooseveltQuote.id)
        /\ response[1].search_results[1].score = final_score_of(points[RooseveltIndex])

\* the Roosevelt quote, last in scroll order, without analysis fields and
\* at similarity -1, is returned first ahead of nine quotes that have
\* analysis fields and similarity 1
C8_Witness ==
    /\ Answered
    /\ WholeCorpus
    /\ RooseveltIndex = CorpusSize
    /\ points[RooseveltIndex].score = lowest(SemanticLevels)
    /\ ~has_analysis_data(points[RooseveltIndex].payload)
    /\ \A i \in 1..Len(points) :
          i # RooseveltIndex =>
              points[i].score = highest(SemanticLevels) /\ has_analysis_data(points[i].payload)
    /\ response[1].search_results[1].id = Some(RooseveltQuote.id)

\* C9 as stated: the search_results of EnhancedRAG.process_query hold at
\* most top_k documents and no two of them have the same quote id, for
\* every store content.
C9_EnhancedAtMostTopKUniqueIds ==
    Answered =>
        /\ Len(response[1].search_results) <= request[1].top_k
        /\ NoRepeatedId(response[1].search_results)

(***************************************************************************)
(* Properties of RAGMetrics.                                               *)
(***************************************************************************)
\* C10 as stated: hallucination_score returns 0.0 for the answer "I cannot
\* find that information in my knowledge base" for every list of context
\* documents, the empty list and documents that share no word with the
\* answer included.
C10_RefusalScoresZero ==
    (request # None /\ response # None
        /\ request[1].generated_answer = RefusalAnswer) =>
        response[1] = 0

\* the ids of both lists of the call in progress
CommonIds == Range(request[1].retrieved_ids) \cap Range(request[1].expected_ids)

\* C11: retrieval_precision returns the number of distinct ids that are in
\* both lists divided by the length of retrieved (0 when retrieved is
\* empty), retrieval_recall returns that number divided by the length of
\* expected (0 when expected is empty); both lie in [0, 1], and for
\* retrieved = [1,2,3], expected = [2,3,4] both are 2/3.
C11_PrecisionAndRecall ==
    (request # None /\ response # None) =>
        /\ response[1][2] >= 1
        /\ 0 <= response[1][1] /\ response[1][1] <= response[1][2]
        /\ request[1].metric = "retrieval_precision" =>
              IF request[1].retrieved_ids = <<>> THEN response[1][1] = 0
              ELSE response[1][1] * Len(request[1].retrieved_ids)
                      = Cardinality(CommonIds) * response[1][2]
        /\ request[1].metric = "retrieval_recall" =>
              IF request[1].expected_ids = <<>> THEN response[1][1] = 0
              ELSE response[1][1] * Len(request[1].expected_ids)
                      = Cardinality(CommonIds) * response[1][2]
        /\ (request[1].retrieved_ids = <<1, 2, 3>> /\ request[1].expected_ids = <<2, 3, 4>>)
              => response[1][1] * 3 = 2 * response[1][2]

\* recall of [1,2,3] against [2,3,4] came out as 2/3
C11_Witness ==
    /\ request # None
    /\ request[1].metric = "retrieval_recall"
    /\ request[1].retrieved_ids = <<1, 2, 3>>
    /\ request[1].expected_ids = <<2, 3, 4>>
    /\ response = Some(<<2, 3>>)

\* run_evaluation has built its report over a dataset that is not empty
Reported == evaluation # None /\ evaluation[1].report # None /\ evaluation[1].eval_data # <<>>

\* the positions of the dataset whose case completed
CompletedCases(ev) == {i \in 1..Len(ev.outcomes) : ev.outcomes[i] = "completed"}

\* the loop went through the whole dataset, and test_results holds the
\* completed cases, and only those, in dataset order
InDatasetOrder(ev) ==
    /\ Len(ev.outcomes) = Len(ev.eval_data)
    /\ Len(ev.results) = Cardinality(CompletedCases(ev))
    /\ \A n \in 1..Len(ev.results) :
          \E i \in CompletedCases(ev) :
             /\ Cardinality({j \in CompletedCases(ev) : j <= i}) = n
             /\ ev.results[n].question = ev.eval_data[i].question
             /\ ev.results[n].expected_ids = ev.eval_data[i].expected_quote_ids

\* the value of a metric in the record of one completed case
metric_of(test_result, key) ==
    IF key \in DOMAIN test_result.metrics THEN test_result.metrics[key]
    ELSE IF key = "interpretation_quality"
    THEN test_result.interpretation_evaluation.interpretation_quality
    ELSE test_result.analysis_metrics[key]

metric_total(results, key) == Sum([n \in 1..Len(results) |-> metric_of(results[n], key)])

\* every report lists the completed cases in dataset order
InDatasetOrderReport == Reported => InDatasetOrder(evaluation[1])

\* C12 as stated: run_evaluation goes through the dataset in order, a case
\* that raises stops nothing and is not in test_results, and every metric
\* of average_metrics is the sum of the metric over the completed cases
\* divided by config.successful_queries.
C12_AveragesOverCompletedCases ==
    (Reported /\ evaluation[1].results # <<>>) =>
        /\ InDatasetOrder(evaluation[1])
        /\ evaluation[1].report[1].config.successful_queries = Len(evaluation[1].results)
        /\ \A key \in DOMAIN evaluation[1].report[1].average_metrics :
              evaluation[1].report[1].average_metrics[key][1] * Len(evaluation[1].results)
                 = metric_total(evaluation[1].results, key)
                      * evaluation[1].report[1].average_metrics[key][2]

\* the same for the five metrics of total_metrics and the four scores of
\* _analyze_answer_quality: every metric but interpretation_quality
AveragesButInterpretationQuality ==
    (Reported /\ evaluation[1].results # <<>>) =>
        \A key \in DOMAIN evaluation[1].report[1].average_metrics \ {"interpretation_quality"} :
           evaluation[1].report[1].average_metrics[key][1] * Len(evaluation[1].results)
              = metric_total(evaluation[1].results, key)
                   * evaluation[1].report[1].average_metrics[key][2]

\* a call of generate_response is in progress
Generating == request # None /\ "backend" \in DOMAIN request[1]

\* the client has no backend, or the backend raised in this call
BackendFailed ==
    \/ request[1].backend.raises
    \/ ~ (llm.use_local /\ llm.pipeline) /\ ~ (~llm.use_local /\ llm.client)

\* C13: generate_response never raises: whatever the client holds and
\* whatever the backend does, it returns a string; when the backend raised
\* or the client has none, the string is the fallback that starts with
\* "Mock response to:".
C13_GenerateResponseNeverRaises ==
    Generating =>
        /\ response # None
        /\ raised = "nobody"
        /\ BackendFailed => StartsWith(response[1], "Mock response to:")

\* the local pipeline raised and the caller got the fallback for its prompt
C13_Witness ==
    /\ Generating
    /\ llm.use_local /\ llm.pipeline
    /\ request[1].backend.raises
    /\ response = Some(generate_mock(request[1].prompt))

\* the stored payloads of the collection that lack a required field
MalformedStored ==
    {points[j].payload : j \in {k \in 1..Len(points) : ~ (RequiredFields \subseteq DOMAIN points[k].payload)}}

\* C14 as stated: a stored payload that lacks id, quote or author is skipped
\* by process_query: no document of search_results comes from it, and the
\* response is not an error response.
C14_MalformedPayloadsAreSkipped ==
    (response # None /\ "search_results" \in DOMAIN response[1]) =>
        /\ "error" \notin DOMAIN response[1]
        /\ \A i \in 1..Len(response[1].search_results) :
              \A payload \in MalformedStored :
                 GetOpt(payload, "id") # response[1].search_results[i].id

\* the part of C14 that holds: a payload without id is in no search_results
\* and makes no error response
MissingIdIsSkipped ==
    (response # None /\ "search_results" \in DOMAIN response[1]) =>
        /\ "error" \notin DOMAIN response[1]
        /\ \A i \in 1..Len(response[1].search_results) :
              response[1].search_results[i].id # None

\* a ranker scored a document for a keyword list and for the list with one
\* more keyword
ScoredTwice == request # None /\ "keyword" \in DOMAIN request[1]

\* the keyword that was added is in the text the ranker searches
AddedKeywordMatches ==
    IF request[1].ranker = "RAGPipeline"
    THEN Contains(boost_blob(blob_fields(build_search_payload(request[1].hit, TRUE))),
                  request[1].keyword)
    ELSE Contains(doc_content(lower_text(text_fields(request[1].hit.payload))),
                  request[1].keyword)

\* C15: in RAGPipeline._apply_enhanced_boosting (keyword_boost >= 0) and in
\* EnhancedRAG._calculate_document_score, one more keyword, whether the
\* document holds it or not, never lowers the final score of the document.
C15_KeywordBoostMonotonic ==
    ScoredTwice => response[1].score_with_one_more >= response[1].score

\* the Roosevelt quote scored for ["fear"] and for ["fear", "roosevelt"] by
\* EnhancedRAG: the author match adds three keyword points
C15_Witness ==
    /\ ScoredTwice
    /\ request[1].ranker = "EnhancedRAG"
    /\ request[1].hit.payload = RooseveltQuote
    /\ request[1].keywords = <<"fear">>
    /\ request[1].keyword = "roosevelt"
    /\ AddedKeywordMatches
    /\ response[1].score_with_one_more = response[1].score + 900

\* the calls of _extract_keywords_and_intent so far agree on every question
SameQuestionSameAnalysis ==
    \A i, j \in 1..Len(analyses) :
        analyses[i][1] = analyses[j][1] => analyses[i][2] = analyses[j][2]

\* a step that is a call of _extract_keywords_and_intent
ExtractStep == request = None /\ request' # None /\ analyses' # analyses

Extracting == request # None /\ "query" \in DOMAIN request[1]

\* the name of the mapping entry, or one of its variations, is in the question
Mentioned(mapping, query_lower) ==
    \/ Contains(query_lower, mapping[1])
    \/ \E variation \in mapping[2] : Contains(query_lower, variation)

\* C20 as stated: if the canonical name of an author or any of its aliases
\* is in the question, the keyword set holds the canonical name and all the
\* aliases; likewise for a topic and its synonyms.
C20_ExpansionIsBidirectional ==
    Extracting =>
        \A mapping \in author_mappings \cup topic_mappings :
            Mentioned(mapping, Lower(request[1].query))
                => ({mapping[1]} \cup mapping[2]) \subseteq response[1].keywords

\* what the extractor does: the canonical name in the question brings the
\* name and all its variations, a variation in the question brings the
\* canonical name
ExpansionFromCanonicalName ==
    Extracting =>
        \A mapping \in author_mappings \cup topic_mappings :
            /\ Contains(Lower(request[1].query), mapping[1])
                  => ({mapping[1]} \cup mapping[2]) \subseteq response[1].keywords
            /\ Mentioned(mapping, Lower(request[1].query))
                  => mapping[1] \in response[1].keywords

\* the questions of the exact/author predicate: "who said", or one of "what
\* did"/"what was", a quote character, "dream about" together with no "quotes"
ExactOrAuthorQuestions ==
    {q \in Questions :
        \/ Contains(Lower(q), "who said")
        \/ /\ ~Contains(Lower(q), "quotes")
           /\ \/ Contains(Lower(q), "what did") \/ Contains(Lower(q), "what was")
              \/ Contains(q, "'") \/ Contains(q, "\"")
              \/ Contains(Lower(q), "dream about")}

\* C17: in the enhanced pipeline at most one of the two query-shape rules
\* decides effective_top_k: a topic search gets the requested top_k, also
\* when it is an exact/author lookup too, and a question that is only an
\* exact/author lookup gets 1.
C17_OneShapeRuleDecides ==
    (Answered /\ use_enhanced) =>
        /\ request[1].question \in TopicSearchQuestions
              => response[1].used_top_k = request[1].top_k
        /\ request[1].question \in ExactOrAuthorQuestions \ TopicSearchQuestions
              => response[1].used_top_k = 1

\* a question under both predicates asked for more than one document
C17_Witness ==
    /\ Answered
    /\ use_enhanced
    /\ request[1].question \in ExactOrAuthorQuestions \cap TopicSearchQuestions
    /\ request[1].top_k = MaxRequestedTopK
    /\ response[1].used_top_k = MaxRequestedTopK

\* the mode process_query resolves from its argument and the default
AskedComprehensive ==
    IF request[1].analysis_mode = None THEN default_analysis_mode = "comprehensive"
    ELSE Lower(request[1].analysis_mode[1]) = "comprehensive"

\* the questions with an interpretation or historical cue
CueQuestions == {q \in Questions : \E t \in analysis_triggers : Contains(Lower(q), t)}

\* a question outside both shape rules, with a cue, asked in comprehensive mode
ComprehensiveCue ==
    /\ Answered
    /\ use_enhanced
    /\ AskedComprehensive
    /\ request[1].question \in CueQuestions \ (ExactOrAuthorQuestions \cup TopicSearchQuestions)

\* C18: in the enhanced pipeline a question that is neither an exact/author
\* lookup nor a topic search, has an interpretation/historical cue and is
\* asked in comprehensive mode gets used_top_k = min(max(top_k, 2), 3):
\* 2 or 3, and more than the requested top_k when that is 1.
C18_ComprehensiveClamp ==
    ComprehensiveCue =>
        /\ response[1].used_top_k = Min(Max(request[1].top_k, 2), 3)
        /\ response[1].used_top_k \in {2, 3}
        /\ request[1].top_k = 1 => response[1].used_top_k > request[1].top_k

\* one document was asked for and two were allowed
C18_Witness ==
    /\ ComprehensiveCue
    /\ request[1].top_k = 1
    /\ response[1].used_top_k = 2

\* more than three documents were asked for and three were allowed
C18_CappedAtThree ==
    /\ ComprehensiveCue
    /\ request[1].top_k = MaxRequestedTopK
    /\ response[1].used_top_k = 3

\* search_quotes returned without an exception inside
Searched == request # None /\ "entry" \in DOMAIN request[1] /\ raised = "nobody"

\* C19 as stated: search_quotes and process_query keep the same documents
\* of the same hits: for a collection, a question and a top_k, search_quotes
\* returns the search_results process_query returns in the pipeline's mode.
C19_SameDocumentsFromBothEntryPoints ==
    Searched =>
        response[1].docs
            = process_query(use_enhanced, default_analysis_mode, points, request[1].question,
                            request[1].top_k, None, TRUE, "nobody",
                            "I cannot find that information in my knowledge base"
                           ).response.search_results

\* what the two entry points share: the number of documents is at most the
\* effective top_k of the question
SearchWithinEffectiveTopK ==
    Searched =>
        Len(response[1].docs)
            <= select_effective_top_k(use_enhanced, request[1].question, request[1].top_k,
                                      default_analysis_mode)

\* the words of a text, lower-cased, between single spaces
spaced_words(text) == " " \o JoinSpace(WordRuns(Lower(text), 1)) \o " "

\* cue is one of the words of the query (a cue of two words: two words of the
\* query that follow each other)
HasCueWord(query, cues) == \E cue \in cues : Contains(spaced_words(query), " " \o cue \o " ")

NoCueWord(query) ==
    ~HasCueWord(query, interpretation_words \cup historical_words \cup comparison_words)

NoIntent == [interpretation |-> FALSE, historical |-> FALSE, comparison |-> FALSE, type |-> "retrieval"]

\* C21 as stated: a question none of whose words is an interpretation,
\* historical or comparison cue word is classified with intent type
\* retrieval and all three flags false; the self-test query "What quotes are
\* there about perseverance?" is classified as retrieval.
C21_NoCueWordIsRetrieval ==
    Extracting =>
        /\ NoCueWord(request[1].query) => response[1].intent = NoIntent
        /\ request[1].query = "What quotes are there about perseverance?"
              => response[1].intent.type = "retrieval"

\* what the extractor does: a flag is raised exactly when the cue is a
\* substring of the lower-cased query, inside a word or not
FlagsFollowSubstrings ==
    Extracting =>
        /\ response[1].intent.interpretation
              = (\E cue \in interpretation_words : Contains(Lower(request[1].query), cue))
        /\ response[1].intent.historical
              = (\E cue \in historical_words : Contains(Lower(request[1].query), cue))
        /\ response[1].intent.comparison
              = (\E cue \in comparison_words : Contains(Lower(request[1].query), cue))
        /\ (response[1].intent.type = "retrieval")
              = (~response[1].intent.interpretation /\ ~response[1].intent.historical
                    /\ ~response[1].intent.comparison)

(***************************************************************************)
(* Properties of EnhancedRAG._select_best_documents.                       *)
(***************************************************************************)
\* the documents process_query has scored for the question of the call
ScoredDocs == score_all_docs(scroll(points), request[1].question)

\* order puts docs in descending order of score and keeps documents of equal
\* score in the order they have in docs
RanksStably(order, docs) ==
    /\ \A i, j \in 1..Len(docs) : i # j => order[i] # order[j]
    /\ \A i, j \in 1..Len(docs) :
          i < j => \/ docs[order[i]].score > docs[order[j]].score
                   \/ docs[order[i]].score = docs[order[j]].score /\ order[i] < order[j]

\* docs in descending order of final score
Ranked(docs) ==
    [n \in 1..Len(docs) |->
        docs[(CHOOSE order \in [1..Len(docs) -> 1..Len(docs)] : RanksStably(order, docs))[n]]]

WithAnalysis(docs) == SelectSeq(docs, doc_with_analysis)

WithoutAnalysis(docs) == SelectSeq(docs, doc_without_analysis)

PrefersAnalysis(intent) == intent.interpretation \/ intent.historical

\* C22: for interpretation or historical intent the selection is the first
\* min(top_k, |A|) documents of A, the documents with analysis fields in
\* descending order of final score, followed by the first top_k - |A|
\* documents without analysis fields in descending order of final score;
\* when A is empty or the intent is another one it is the top_k best scored
\* documents.
C22_AnalysisDocumentsFirst ==
    Answered =>
        response[1].search_results =
            IF PrefersAnalysis(response[1].query_analysis.intent) /\ WithAnalysis(ScoredDocs) # <<>>
            THEN Take(Ranked(WithAnalysis(ScoredDocs)), request[1].top_k)
                    \o Take(Ranked(WithoutAnalysis(ScoredDocs)),
                            request[1].top_k - Len(WithAnalysis(ScoredDocs)))
            ELSE Take(Ranked(ScoredDocs), request[1].top_k)

\* an interpretation question: the only document with analysis fields is
\* returned first and a better scored document without them fills the
\* second place
C22_Witness ==
    /\ Answered
    /\ response[1].query_analysis.intent.interpretation
    /\ request[1].top_k >= 2
    /\ Len(response[1].search_results) >= 2
    /\ Len(WithAnalysis(ScoredDocs)) = 1
    /\ response[1].search_results[1].has_analysis
    /\ ~response[1].search_results[2].has_analysis
    /\ response[1].search_results[2].score > response[1].search_results[1].score

(***************************************************************************)
(* Ties of the final score in the two rankers.                             *)
(***************************************************************************)
\* the call that has returned is one of EnhancedRAG.process_query
ByEnhancedRAG == "query_analysis" \in DOMAIN response[1]

\* the place of a returned document in the collection
StorePlace(doc) == CHOOSE i \in 1..Len(points) : Some(points[i].payload.id) = doc.id

\* the documents at i and j of the result have one score and stand as they
\* stand in the collection
TieInStoreOrder(docs, i, j) ==
    (i < j /\ docs[i].score = docs[j].score) => StorePlace(docs[i]) < StorePlace(docs[j])

\* C23 as stated: in the ranked output of both rankers, for every intent,
\* any two documents of equal final score stand in the relative order they
\* have in the store's retrieval order.
C23_TiesKeepStoreOrder ==
    Answered =>
        \A i, j \in 1..Len(response[1].search_results) :
            TieInStoreOrder(response[1].search_results, i, j)

\* both documents are on one side of the split _select_best_documents makes
\* for interpretation and historical intent
SameSideOfSplit(docs, i, j) ==
    \/ ~PrefersAnalysis(response[1].query_analysis.intent)
    \/ WithAnalysis(ScoredDocs) = <<>>
    \/ docs[i].has_analysis = docs[j].has_analysis

\* C23, amended: documents of equal final score keep the store's order in
\* the output of RAGPipeline._apply_enhanced_boosting, and in the output of
\* EnhancedRAG._select_best_documents when they are on one side of the split
\* by analysis fields; a document with analysis fields precedes every
\* document without them, a tie included.
C23_TiesKeepStoreOrderWithinSplit ==
    Answered =>
        \A i, j \in 1..Len(response[1].search_results) :
            IF ByEnhancedRAG
            THEN /\ SameSideOfSplit(response[1].search_results, i, j)
                      => TieInStoreOrder(response[1].search_results, i, j)
                 /\ (~SameSideOfSplit(response[1].search_results, i, j) /\ i < j)
                      => response[1].search_results[i].has_analysis
            ELSE TieInStoreOrder(response[1].search_results, i, j)

\* a question of historical intent: two documents without analysis fields
\* tie and are returned in the order of the collection, the later id first
C23_Witness ==
    /\ Answered
    /\ ByEnhancedRAG
    /\ PrefersAnalysis(response[1].query_analysis.intent)
    /\ Len(response[1].search_results) = 3
    /\ response[1].search_results[1].has_analysis
    /\ response[1].search_results[2].id = Some(NoAuthorPayload.id)
    /\ response[1].search_results[3].id = Some(BaconQuote.id)
    /\ response[1].search_results[2].score = response[1].search_results[3].score
    /\ StorePlace(response[1].search_results[2]) < StorePlace(response[1].search_results[3])

\* the enhanced RAGPipeline returns two documents of equal boosted score in
\* the order of the collection
TieInPipeline ==
    /\ Answered
    /\ ~ByEnhancedRAG
    /\ Len(response[1].search_results) >= 2
    /\ response[1].search_results[1].score = response[1].search_results[2].score
    /\ response[1].search_results[1].id = Some(NoAuthorPayload.id)
    /\ response[1].search_results[2].id = Some(BaconQuote.id)

(***************************************************************************)
(* Properties of the prompt formatters.                                    *)
(***************************************************************************)
\* a formatter has returned
Formatted == request # None /\ "formatter" \in DOMAIN request[1]

IsDigit(c) == IndexIn(Digits, c) # 0

\* the number of the label "Q<number> - Quote: " a line starts with, if any
rag_label(line) ==
    IF /\ StartsWith(line, "Q")
       /\ Len(line) >= 2
       /\ IsDigit(CharAt(line, 2))
       /\ StartsWith(SubSeq(line, LastOfRun(line, 2, IsDigit) + 1, Len(line)), " - Quote: ")
    THEN Some(SubSeq(line, 2, LastOfRun(line, 2, IsDigit)))
    ELSE None

\* line without the rule it may start with
AfterRule(line) == IF StartsWith(line, rule) THEN SubSeq(line, Len(rule) + 1, Len(line)) ELSE line

\* the number of the label "QUOTE <number>:" that makes up a line, if any
analysis_label(line) ==
    IF /\ StartsWith(line, "QUOTE ")
       /\ Len(line) >= 8
       /\ CharAt(line, Len(line)) = ":"
       /\ AllDigits(SubSeq(line, 7, Len(line) - 1))
    THEN Some(SubSeq(line, 7, Len(line) - 1))
    ELSE None

label_of_line(line) ==
    IF rag_label(line) # None THEN rag_label(line) ELSE analysis_label(AfterRule(line))

is_label(label) == label # None

\* the numbers of the citation labels of a prompt, from top to bottom
citation_labels(prompt) ==
    SelectSeq([n \in 1..Len(prompt) |-> label_of_line(prompt[n])], is_label)

\* the labels 1..n
LabelsUpTo(n) == [k \in 1..n |-> Some(Decimal(k))]

\* C24 as stated: each of format_simple_prompt, format_rag_prompt and
\* format_rag_prompt_with_analysis emits for a list of n documents exactly
\* one citation label per document, the labels numbered 1..n in input order.
C24_OneLabelPerDocument ==
    Formatted =>
        citation_labels(response[1].prompt) = LabelsUpTo(Len(request[1].context_docs))

\* what the formatters do: format_rag_prompt and
\* format_rag_prompt_with_analysis label the documents 1..n in input order,
\* format_simple_prompt emits one line per document and no label
LabelsButInSimplePrompt ==
    Formatted =>
        IF request[1].formatter = "format_simple_prompt"
        THEN /\ citation_labels(response[1].prompt) = <<>>
             /\ \A n \in 1..Len(request[1].context_docs) :
                   \E k \in 1..Len(response[1].prompt) :
                       Contains(response[1].prompt[k],
                                simple_entry(request[1].context_docs[n])[1])
        ELSE citation_labels(response[1].prompt) = LabelsUpTo(Len(request[1].context_docs))

(***************************************************************************)
(* The prompt of comprehensive mode.                                       *)
(***************************************************************************)
\* process_query has answered in comprehensive mode
AnsweredComprehensive == Answered /\ response[1].analysis_mode = "comprehensive"

\* the prompt asks for an interpretation section and a historical-context
\* section
RequestsAnalysisSections(prompt) ==
    /\ \E n \in 1..Len(prompt) : prompt[n] = "2. QUOTE INTERPRETATION:"
    /\ \E n \in 1..Len(prompt) : prompt[n] = "3. HISTORICAL CONTEXT:"

\* the text of the prompt that went to the LLM
SentPrompt ==
    format_prompt(llm_prompts[1].method, request[1].question, response[1].search_results)

\* C25 as stated: whenever process_query runs in comprehensive mode, the
\* prompt sent to the LLM is the analysis prompt, the one that requests
\* historical-context and interpretation sections, and answer_type is
\* comprehensive_analysis, whatever fields the retrieved documents carry
\* and also when no document was retrieved.
C25_ComprehensiveUsesAnalysisPrompt ==
    AnsweredComprehensive =>
        /\ Len(llm_prompts) = 1
        /\ llm_prompts[1].method = "format_rag_prompt_with_analysis"
        /\ RequestsAnalysisSections(SentPrompt)
        /\ response[1].answer_type = "comprehensive_analysis"

\* what process_query does in comprehensive mode: the analysis prompt goes
\* out exactly when a retrieved document has an interpretation or a
\* historical significance; otherwise the standard prompt does, and the
\* answer is a standard_answer
ComprehensivePromptFollowsFields ==
    AnsweredComprehensive =>
        /\ Len(llm_prompts) = 1
        /\ IF docs_have_analysis(response[1].search_results)
           THEN /\ llm_prompts[1].method = "format_rag_prompt_with_analysis"
                /\ RequestsAnalysisSections(SentPrompt)
                /\ response[1].answer_type = "comprehensive_analysis"
           ELSE /\ llm_prompts[1].method = "format_rag_prompt"
                /\ ~RequestsAnalysisSections(SentPrompt)
                /\ response[1].answer_type = "standard_answer"

(***************************************************************************)
(* The calls of process_query in one case of run_evaluation.               *)
(***************************************************************************)
\* the loop of run_evaluation has processed a case and not yet built the report
CaseProcessed ==
    /\ evaluation # None
    /\ IF evaluation = None THEN FALSE
       ELSE evaluation[1].outcomes # <<>> /\ evaluation[1].report = None

LatestCalls == evaluation[1].calls

LatestOutcome == evaluation[1].outcomes[Len(evaluation[1].outcomes)]

LatestResult == evaluation[1].results[Len(evaluation[1].results)]

\* C26: in run_evaluation with analysis_mode set, a case whose first call of
\* process_query raises is retried exactly once, without the analysis mode;
\* the case is skipped only if the retry raises too; process_query is
\* called at most twice per case, and the recorded response_time spans both
\* calls.
C26_RetryOnceWithoutMode ==
    (CaseProcessed /\ evaluation[1].analysis_mode # None) =>
        /\ Len(LatestCalls) \in {1, 2}
        /\ LatestCalls[1].with_mode
        /\ (Len(LatestCalls) = 2) = LatestCalls[1].raised
        /\ Len(LatestCalls) = 2 => ~LatestCalls[2].with_mode
        /\ LatestCalls[1].raised
              => (LatestOutcome = "raised") = LatestCalls[2].raised
        /\ LatestOutcome = "completed"
              => LatestResult.metrics.response_time
                    = Sum([n \in 1..Len(LatestCalls) |-> LatestCalls[n].seconds])

\* the second case of a dataset: the call with the mode raised after 2 time
\* units, the retry without the mode returned after 1, and the case is in
\* test_results with response_time 3
C26_Witness ==
    /\ CaseProcessed
    /\ evaluation[1].analysis_mode # None
    /\ Len(evaluation[1].outcomes) = 2
    /\ Len(LatestCalls) = 2
    /\ LatestCalls[1].raised /\ LatestCalls[1].seconds = 2
    /\ ~LatestCalls[2].raised /\ LatestCalls[2].seconds = 1
    /\ LatestOutcome = "completed"
    /\ LatestResult.metrics.response_time = 3

\* without analysis_mode there is one call and no retry
OneCallWithoutMode ==
    (CaseProcessed /\ evaluation[1].analysis_mode = None) =>
        /\ Len(LatestCalls) = 1
        /\ ~LatestCalls[1].with_mode
        /\ (LatestOutcome = "raised") = LatestCalls[1].raised

\* the last case the loop went through, or the report built after it, when
\* the pipeline call that gave the case's result returned an error response
ErrorCaseProcessed ==
    /\ evaluation # None
    /\ IF evaluation = None THEN FALSE
       ELSE /\ evaluation[1].outcomes # <<>>
            /\ evaluation[1].calls[Len(evaluation[1].calls)].error

\* the error case is the last entry of test_results and of every metric list
CountedAsCompleted(ev) ==
    /\ ev.outcomes[Len(ev.outcomes)] = "completed"
    /\ ev.results # <<>>
    /\ ev.results[Len(ev.results)].retrieved_ids = <<>>
    /\ ev.results[Len(ev.results)].pipeline_info.analysis_mode = "error"
    /\ ev.results[Len(ev.results)].metrics.precision = 0
    /\ ev.results[Len(ev.results)].metrics.recall = 0
    /\ \A key \in DOMAIN ev.total_metrics :
          /\ Len(ev.total_metrics[key]) = Len(ev.results)
          /\ ev.total_metrics[key][Len(ev.results)] = ev.results[Len(ev.results)].metrics[key]

\* the report counts the error case and averages over it
EntersReport(ev) ==
    /\ ev.report[1].config.successful_queries = Len(ev.results)
    /\ ev.report[1].test_results = ev.results
    /\ \A key \in {"precision", "recall"} :
          ev.report[1].average_metrics[key] =
             <<Sum([n \in 1..Len(ev.results) |-> ev.results[n].metrics[key]]), Len(ev.results)>>

\* C27: when the pipeline's embedder or vector store fails, process_query
\* returns an error response instead of raising, and run_evaluation counts
\* the case as successful: it is in test_results with retrieved_ids empty,
\* precision 0 and recall 0, and these values enter the averages and
\* successful_queries.
C27_ErrorResponseCountsAsSuccess ==
    ErrorCaseProcessed =>
        /\ CountedAsCompleted(evaluation[1])
        /\ evaluation[1].report # None => EntersReport(evaluation[1])

\* a report over two cases: the first retrieved the expected document, in
\* the second the embedder failed; both are counted and the average
\* precision is one half
C27_Witness ==
    /\ ErrorCaseProcessed
    /\ evaluation[1].report # None
    /\ Len(evaluation[1].eval_data) = 2
    /\ evaluation[1].results[1].metrics.precision = One
    /\ evaluation[1].results[2].answer = "Error during RAG processing: embedder"
    /\ evaluation[1].report[1].config.successful_queries = 2
    /\ evaluation[1].report[1].average_metrics.precision = <<One, 2>>

\* every error response the evaluator is fed is what process_query returns
\* when a component fails, and process_query does not raise then
ErrorResultsAreErrorResponses ==
    /\ ErrorResults = {error_response(raiser) : raiser \in FailingComponents}
    /\ ErrorResults \subseteq EvalResults

\* process_query of a pipeline without enhancement has returned a response
\* that is not an error response
PlainAnswered ==
    /\ ~use_enhanced
    /\ response # None
    /\ IF response = None THEN FALSE ELSE "error" \notin DOMAIN response[1]

\* the hits the store returns for the request: its 2 * top_k nearest points
HitsOf(top_k) == 1..Min(2 * top_k, Len(points))

\* the hits that carry an id no earlier hit carries
DistinctIdHits(top_k) ==
    {j \in HitsOf(top_k) :
        /\ "id" \in DOMAIN points[j].payload
        /\ \A i \in 1..(j - 1) :
              "id" \in DOMAIN points[i].payload => points[i].payload.id # points[j].payload.id}

\* the n-th distinct-id hit in the store's order
NthDistinctIdHit(top_k, n) ==
    CHOOSE j \in DistinctIdHits(top_k) :
        Cardinality({i \in DistinctIdHits(top_k) : i <= j}) = n

\* doc is the hit at place j of the store's answer, with the store's score
IsHit(doc, j) ==
    /\ doc.id = Some(points[j].payload.id)
    /\ doc.quote = points[j].payload.quote
    /\ doc.author = points[j].payload.author
    /\ doc.score = points[j].score

\* C28: without use_enhanced process_query leaves the store's ranking
\* untouched: used_top_k is the requested top_k for every question and
\* mode, and search_results are the first used_top_k distinct-id hits in the
\* store's order, each with the store's score.
C28_PlainPipelineKeepsStoreRanking ==
    PlainAnswered =>
        /\ response[1].used_top_k = request[1].top_k
        /\ Len(response[1].search_results) =
              Min(request[1].top_k, Cardinality(DistinctIdHits(request[1].top_k)))
        /\ \A n \in 1..Len(response[1].search_results) :
              IsHit(response[1].search_results[n], NthDistinctIdHit(request[1].top_k, n))

\* a comprehensive query for two documents about a quoted phrase: the store
\* returns four hits, two of them repeat the Roosevelt id and one has no id;
\* the result is the Roosevelt quote at 90 and the Bacon quote at 20
C28_Witness ==
    /\ PlainAnswered
    /\ request[1].question = "What does Roosevelt's 'fear itself' quote mean?"
    /\ request[1].analysis_mode = Some("comprehensive")
    /\ request[1].top_k = 2
    /\ Len(points) = 4
    /\ points[1].payload = RooseveltQuote /\ points[1].score = 90
    /\ points[2].payload = RooseveltQuote
    /\ points[3].payload = NoIdQuote
    /\ points[4].payload = BaconQuote /\ points[4].score = 20
    /\ response[1].used_top_k = 2
    /\ Len(response[1].search_results) = 2
    /\ response[1].search_results[2].id = Some(BaconQuote.id)
    /\ response[1].search_results[2].score = 20

\* an error response of a pipeline without enhancement carries no document
PlainErrorHasNoDocuments ==
    (~use_enhanced /\ response # None /\ raised # "nobody")
        => response[1].search_results = <<>>

\* main is running or has just returned
MainCalled == full_evaluation # None

\* the steps main has started so far
StartedSteps == full_evaluation[1].steps

\* the step returned 0 and must_exist found its artifact
StepSucceeded(n) ==
    /\ StartedSteps[n].rc = Some(0)
    /\ StartedSteps[n].found = Some(TRUE)
    /\ artifact_path[StartedSteps[n].step] \in full_evaluation[1].files

SummaryPrinted ==
    \E n \in 1..Len(full_evaluation[1].printed) :
        full_evaluation[1].printed[n] = "FULL EVALUATION PIPELINE COMPLETE"

\* C29: main runs the steps in the order baseline, enhanced, report; a step
\* is started only if every earlier step returned 0 and left its artifact,
\* and the completion summary is printed only if all three steps returned 0
\* and docs/enhancement_report.md exists.
C29_StepsInOrderAfterSuccess ==
    MainCalled =>
        /\ Len(StartedSteps) <= Len(StepOrder)
        /\ \A n \in 1..Len(StartedSteps) :
              /\ StartedSteps[n].step = StepOrder[n]
              /\ \A m \in 1..(n - 1) : StepSucceeded(m)
        /\ SummaryPrinted =>
              /\ Len(StartedSteps) = Len(StepOrder)
              /\ \A n \in 1..Len(StepOrder) : StepSucceeded(n)
              /\ "docs/enhancement_report.md" \in full_evaluation[1].files

\* the report script is running after the two evaluations returned 0 and
\* wrote their artifacts on a disk that held only the scripts
C29_Witness ==
    /\ MainCalled
    /\ Len(StartedSteps) = 3
    /\ full_evaluation[1].running
    /\ StartedSteps[3].step = "report"
    /\ StartedSteps[1].rc = Some(0) /\ StartedSteps[2].rc = Some(0)
    /\ full_evaluation[1].files =
          ScriptPaths \cup {"evaluation/results", "docs", "evaluation/results/baseline.json",
                            "evaluation/results/enhanced_simple.json"}

\* a run that printed the summary
SummaryReached == MainCalled /\ SummaryPrinted

\* a script that returns 0 without leaving its artifact ends the run
StopsAtMissingArtifact ==
    MainCalled =>
        \A n \in 1..Len(StartedSteps) :
            StartedSteps[n].found = Some(FALSE) =>
                /\ Len(StartedSteps) = n
                /\ full_evaluation[1].returned
                /\ ~SummaryPrinted

\* build_report has written a report
ReportBuilt ==
    /\ request # None
    /\ IF request = None THEN FALSE ELSE "threshold_pct" \in DOMAIN request[1]
    /\ response # None

\* the number the artifact holds for the target metric, if it holds one
TargetValue(file) ==
    IF "average_metrics" \notin DOMAIN file[1] THEN None
    ELSE IF request[1].target_metric_key \notin DOMAIN file[1].average_metrics THEN None
    ELSE to_float(file[1].average_metrics[request[1].target_metric_key])

\* the metric is in both artifacts, the baseline is not 0, and
\* (enhanced - baseline) / baseline * 100 >= threshold
GatePasses ==
    /\ TargetValue(request[1].baseline) # None
    /\ TargetValue(request[1].enhanced) # None
    /\ TargetValue(request[1].baseline)[1] # 0
    /\ (TargetValue(request[1].enhanced)[1] - TargetValue(request[1].baseline)[1]) * 100
          >= request[1].threshold_pct * TargetValue(request[1].baseline)[1]

\* C30: the quality gate of build_report reports SUCCESS exactly when the
\* target metric is present in both artifacts, the baseline value is not 0
\* and (enhanced - baseline) / baseline * 100 >= threshold; in every other
\* case, a zero or missing baseline included, it reports FAIL.
C30_GateSucceedsIffImproved ==
    ReportBuilt =>
        /\ response[1].status \in {"SUCCESS", "FAIL"}
        /\ (response[1].status = "SUCCESS") = GatePasses

\* precision went from 0.50 to 0.65, exactly 30 percent, at the default
\* threshold: SUCCESS
C30_Witness ==
    /\ ReportBuilt
    /\ request[1].target_metric_key = "precision"
    /\ request[1].threshold_pct = default_threshold_pct
    /\ request[1].baseline[1] = [average_metrics |-> [precision |-> JsonNumber(50)], test_queries |-> 3]
    /\ request[1].enhanced[1] = [average_metrics |-> [precision |-> JsonNumber(65)], test_queries |-> 3]
    /\ response[1].status = "SUCCESS"

\* a baseline of 0 fails the gate whatever the enhanced value and threshold
ZeroBaselineFails ==
    /\ ReportBuilt
    /\ request[1].threshold_pct = 0
    /\ request[1].baseline[1] = [average_metrics |-> [precision |-> JsonNumber(0)], test_queries |-> 3]
    /\ request[1].enhanced[1] = [average_metrics |-> [precision |-> JsonNumber(100)], test_queries |-> 3]
    /\ request[1].target_metric_key = "precision"
    /\ response[1].status = "FAIL"

\* a missing artifact file writes no report: _load_json raises
MissingFileRaises ==
    (request # None /\ raised = "load_json") => response = None

====
